---- MODULE Spec2Model ----
(***************************************************************************)
(* Model of the XML enrichment engine of xml_enricher.py (class            *)
(* XMLEnricher).  A document is an arena of element nodes; a text is a     *)
(* tuple of one-character strings, so that strip, split and the regular    *)
(* expressions of the source are computed, not assumed.                    *)
(* The other programs of the repository (XMLProcessor, the two writers of  *)
(* monitoring_data.json, the Drive to Sheets synchronisation) each keep    *)
(* their state in one record and have a specification of their own.        *)
(***************************************************************************)
EXTENDS Integers, Sequences, FiniteSets, TLC

VARIABLES
    commandes_data, \* self.commandes_data, built by __init__ from the JSON file
    input,       \* the document stored at xml_path
    pc,          \* position inside enrich_xml
    tree,        \* enrich_xml: tree = etree.parse(xml_path, parser)
    ctree,       \* find_all_order_ids_in_xml: its own etree.parse(xml_path)
    contracts,   \* the list returned by find_all_order_ids_in_xml
    idx,         \* 1-based position of the for loop over contracts
    stats,       \* the stats dictionary of enrich_xml
    result,      \* the (success, message) part of the returned tuple
    outfile,     \* the document stored at output_path, NoFile if not written
    prevOut,     \* the output of the previous run, once the run was repeated
    pass,        \* which run of enrich_xml this is
    declared,    \* the encoding the prolog of the file at xml_path declares
    encoding,    \* enrich_xml: encoding = tree.docinfo.encoding or 'iso-8859-1'
    outenc,      \* the encoding the file at output_path was written in
    processor,   \* XMLProcessor: the document, the data and what was returned
    monitoring,  \* monitoring_data.json and the calls of its two writers
    synchronizer \* PIXIDSynchronizer with its Drive folder, sheet and state file

vars == <<commandes_data, input, pc, tree, ctree, contracts, idx, stats, result, outfile, prevOut, pass,
          declared, encoding, outenc, processor, monitoring, synchronizer>>

\* the state of a program that the specification at hand does not run
NotRunning == [state |-> "(not running)"]

----------------------------------------------------------------------------
(* Texts *)

\* None and '' behave alike at every place the source reads a text
\* ("if num:", "classif and classif.strip()", "if statut:", "not node.text").
None == <<>>

Whitespace == {" ", "\n", "\t", "\f"}
DigitChars == {"0", "1", "2", "3", "4", "5", "6", "7", "8", "9"}

\* the characters lxml refuses in a text ("All strings must be XML compatible"):
\* control characters other than tab, line feed and carriage return
ControlChars == {"\f"}

\* does assigning value to element.text succeed, or raise ValueError
XMLCompatible(value) == \A i \in 1..Len(value) : value[i] \notin ControlChars

\* a value of the JSON file that is a number, not a string
JsonNumber == <<"(number)">>

\* str.lstrip() / str.rstrip() / str.strip()
RECURSIVE LStrip(_)
LStrip(s) == IF s # <<>> /\ Head(s) \in Whitespace THEN LStrip(Tail(s)) ELSE s

RECURSIVE RStrip(_)
RStrip(s) ==
    IF s # <<>> /\ s[Len(s)] \in Whitespace THEN RStrip(SubSeq(s, 1, Len(s) - 1)) ELSE s

Strip(s) == RStrip(LStrip(s))

\* '-' in statut
Contains(s, c) == \E i \in 1..Len(s) : s[i] = c

\* statut.split('-')[0]
RECURSIVE SplitFirst(_, _)
SplitFirst(s, c) ==
    IF s = <<>> \/ Head(s) = c THEN <<>> ELSE <<Head(s)>> \o SplitFirst(Tail(s), c)

\* the text before the last separator: what splitting from the right would give
RECURSIVE SplitLast(_, _)
SplitLast(s, c) ==
    IF s = <<>> THEN <<>>
    ELSE IF s[Len(s)] = c THEN SubSeq(s, 1, Len(s) - 1)
    ELSE SplitLast(SubSeq(s, 1, Len(s) - 1), c)

\* ORDER_PATTERNS = [r'(RT\d{6})', r'(CR\d{6})', r'(CD\d{6})']
OrderDigits == 6
ORDER_PATTERNS == << <<"R", "T">>, <<"C", "R">>, <<"C", "D">> >>

\* does prefix + OrderDigits digits start at position i of text
MatchAt(text, prefix, i) ==
    /\ i + Len(prefix) + OrderDigits - 1 <= Len(text)
    /\ \A k \in 1..Len(prefix) : text[i + k - 1] = prefix[k]
    /\ \A k \in 1..OrderDigits : text[i + Len(prefix) + k - 1] \in DigitChars

\* re.search(pattern, text): the leftmost match, None when there is none
Search(text, prefix) ==
    LET hits == {i \in 1..Len(text) : MatchAt(text, prefix, i)} IN
    IF hits = {} THEN None
    ELSE LET i == CHOOSE j \in hits : \A k \in hits : j <= k
         IN  SubSeq(text, i, i + Len(prefix) + OrderDigits - 1)

\* _extract_order_id_from_text: the first pattern of the list that matches
RECURSIVE SearchPatterns(_, _)
SearchPatterns(text, patterns) ==
    IF patterns = <<>> THEN None
    ELSE IF Search(text, Head(patterns)) # None THEN Search(text, Head(patterns))
    ELSE SearchPatterns(text, Tail(patterns))

extract_order_id_from_text(text) == SearchPatterns(text, ORDER_PATTERNS)

\* CLASSIFICATION_REGEX = re.compile(r'^[A-E]\d{1,2}$'), used with .match on a
\* stripped text
CLASSIFICATION_REGEX(s) ==
    /\ Len(s) \in {2, 3}
    /\ s[1] \in {"A", "B", "C", "D", "E"}
    /\ \A k \in 2..Len(s) : s[k] \in DigitChars

----------------------------------------------------------------------------
(* Documents: an arena, a sequence  node id -> [name, text, parent, ..].   *)
(* Children are ordered by id: parsing numbers the elements in document    *)
(* order and etree.SubElement appends the new element as the last child.   *)
(* An id that holds no element of the document has the parent Detached.    *)
(* An element also carries the namespace it is in (ns, NoNamespace for an  *)
(* unqualified name) and the default namespace it declares itself (xmlns,  *)
(* Undeclared when it has no xmlns attribute, NoNamespace for xmlns=""),   *)
(* the prefix its name is written with, and its other attributes.          *)

RootParent == 0
Detached == -1
NoFile == <<>>

NoNamespace == ""
Undeclared == "(undeclared)"

\* an element as it is written: prefix:name (prefix "" for a name without
\* one), its attributes as a sequence of <<name, value>>, in the namespace ns,
\* declaring the default namespace xmlns
Element(name, text, parent, ns, xmlns, prefix, attrs) ==
    [name |-> name, text |-> text, parent |-> parent, ns |-> ns, xmlns |-> xmlns,
     prefix |-> prefix, attrs |-> attrs]

\* an element in the namespace ns that declares the default namespace xmlns
NsNode(name, text, parent, ns, xmlns) ==
    Element(name, text, parent, ns, xmlns, "", <<>>)

\* an element of a document that uses no namespace
Node(name, text, parent) == NsNode(name, text, parent, NoNamespace, Undeclared)
Hole == Node("", <<>>, Detached)

Ids(t) == [i \in 1..Len(t) |-> i]

Children(t, n) == SelectSeq(Ids(t), LAMBDA m : t[m].parent = n)

\* the nodes of todo and their descendants, in document order
RECURSIVE PreList(_, _)
PreList(t, todo) ==
    IF todo = <<>> THEN <<>>
    ELSE <<Head(todo)>> \o PreList(t, Children(t, Head(todo)) \o Tail(todo))

\* descendant::* of n, in document order
Descendants(t, n) == PreList(t, Children(t, n))

\* //* : every element of the document, in document order
AllElements(t) == PreList(t, Children(t, RootParent))

RECURSIVE Ancestor(_, _, _)
Ancestor(t, n, k) ==
    IF k = 0 THEN n
    ELSE IF n \in 1..Len(t) THEN Ancestor(t, t[n].parent, k - 1)
    ELSE RootParent

Range(s) == {s[i] : i \in 1..Len(s)}

\* .//*[local-name()='Name']
XPathDescendant(t, ctx, name) ==
    SelectSeq(Descendants(t, ctx), LAMBDA m : t[m].name = name)

\* *[local-name()='A']/*[local-name()='B'] evaluated at n: grandchildren of n
XPathChildChild(t, n, a, b) ==
    SelectSeq(Ids(t),
              LAMBDA m : /\ t[m].name = b
                         /\ t[m].parent \in 1..Len(t)
                         /\ t[t[m].parent].name = a
                         /\ t[t[m].parent].parent = n)

\* .//*[local-name()=path[1]]/.../*[local-name()=path[k]] evaluated at ctx:
\* the first step is a proper descendant of ctx, every next one a child step
XPathPath(t, ctx, path) ==
    LET k == Len(path)
        desc == Descendants(t, ctx)
        inside == Range(desc)
    IN  SelectSeq(desc,
                  LAMBDA m : /\ t[m].name = path[k]
                             /\ \A i \in 1..k :
                                   /\ Ancestor(t, m, k - i) \in inside
                                   /\ t[Ancestor(t, m, k - i)].name = path[i])

SetText(t, n, value) == [t EXCEPT ![n].text = value]

NewId(t) == Len(t) + 1

\* current.nsmap.get(None): the default namespace in scope at n, the xmlns of
\* the nearest element from n upwards that has one; None when there is none
RECURSIVE nsmap_default(_, _)
nsmap_default(t, n) ==
    IF n \notin 1..Len(t) THEN NoNamespace
    ELSE IF t[n].xmlns # Undeclared THEN t[n].xmlns
    ELSE nsmap_default(t, t[n].parent)

\* a tag that takes the namespace the root element is in
new_tag_RootNamespace(t, current, part_name) ==
    [ns |-> t[1].ns, name |-> part_name]

\* new_tag = f"{{{ns}}}{part_name}" if ns else part_name   (ns as above)
new_tag(t, current, part_name) ==
    [ns |-> nsmap_default(t, current), name |-> part_name]

\* etree.SubElement(current, tag): a new last child of current, which declares
\* no namespace of its own
SubElement(t, parent, tag) ==
    Append(t, NsNode(tag.name, None, parent, tag.ns, Undeclared))

----------------------------------------------------------------------------
(* XMLEnricher *)

\* the notes and messages of the source, written here without accents
NA == <<"N", "/", "A">>
NoteJSON == "depuis JSON"
NoteFallback == "copie depuis PositionLevel"
NoteNoData == "Aucune donnee disponible"

Row(num, classif, statut, descr) ==
    [numero_commande |-> num, classification_interimaire |-> classif,
     statut |-> statut, statut_description |-> descr]

\* _load_commandes: commandes[num] = cmd for every row with a truthy
\* numero_commande, a later row replacing an earlier one with the same number
load_commandes(rows) ==
    LET keys == {rows[i].numero_commande : i \in 1..Len(rows)} \ {None}
    IN  [k \in keys |->
            rows[CHOOSE i \in 1..Len(rows) :
                    /\ rows[i].numero_commande = k
                    /\ \A j \in (i + 1)..Len(rows) : rows[j].numero_commande # k]]

\* _extract_contract_info: the contract of a context, <<>> for None
extract_contract_info(t, context) ==
    LET ref_info == XPathDescendant(t, context, "ReferenceInformation") IN
    IF ref_info = <<>> THEN <<>>
    ELSE
      LET order_id_nodes == XPathChildChild(t, ref_info[1], "OrderId", "IdValue") IN
      IF order_id_nodes = <<>> \/ t[order_id_nodes[1]].text = None THEN <<>>
      ELSE
        LET order_id_text == Strip(t[order_id_nodes[1]].text)
            order_id == extract_order_id_from_text(order_id_text)
            assign_id_nodes == XPathChildChild(t, ref_info[1], "AssignmentId", "IdValue")
        IN  IF order_id = None THEN <<>>
            ELSE << [order_id |-> order_id,
                     assignment_id |->
                         IF assign_id_nodes # <<>> /\ t[assign_id_nodes[1]].text # None
                         THEN Strip(t[assign_id_nodes[1]].text) ELSE NA,
                     context |-> context] >>

\* //*[local-name()='ReferenceInformation'][*[local-name()='OrderId']
\*    /*[local-name()='IdValue']]/..
ContextsOf(t) ==
    SelectSeq(AllElements(t),
              LAMBDA n : \E r \in 1..Len(t) :
                  /\ t[r].parent = n
                  /\ t[r].name = "ReferenceInformation"
                  /\ XPathChildChild(t, r, "OrderId", "IdValue") # <<>>)

RECURSIVE ExtractAll(_, _)
ExtractAll(t, contexts) ==
    IF contexts = <<>> THEN <<>>
    ELSE extract_contract_info(t, Head(contexts)) \o ExtractAll(t, Tail(contexts))

\* find_all_order_ids_in_xml, on the tree it parsed
find_all_order_ids_in_xml(t) == ExtractAll(t, ContextsOf(t))

\* a walk that never looks for an existing element and creates every step
RECURSIVE UpsertWalk_AlwaysCreate(_, _, _, _)
UpsertWalk_AlwaysCreate(t, current, parts, value) ==
    IF parts = <<>> THEN (IF XMLCompatible(value) THEN SetText(t, current, value) ELSE t)
    ELSE UpsertWalk_AlwaysCreate(SubElement(t, current, new_tag(t, current, Head(parts))),
                                 NewId(t), Tail(parts), value)

\* _upsert_text, the else branch: walk the names of the XPath from the context,
\* taking the first descendant of that name or creating a child; the final
\* current.text = value raises on a value lxml refuses, after the elements
\* were created
RECURSIVE UpsertWalk(_, _, _, _)
UpsertWalk(t, current, parts, value) ==
    IF parts = <<>> THEN (IF XMLCompatible(value) THEN SetText(t, current, value) ELSE t)
    ELSE LET existing == XPathDescendant(t, current, Head(parts)) IN
         IF existing # <<>> THEN UpsertWalk(t, existing[1], Tail(parts), value)
         ELSE UpsertWalk(SubElement(t, current, new_tag(t, current, Head(parts))),
                         NewId(t), Tail(parts), value)

\* a variant that leaves the text of an element that already exists
upsert_text_KeepExisting(t, context, path, value) ==
    LET nodes == XPathPath(t, context, path) IN
    IF nodes # <<>>
    THEN [tree |-> t, success |-> XMLCompatible(value)]
    ELSE [tree |-> UpsertWalk(t, context, path, value), success |-> XMLCompatible(value)]

\* _upsert_text(context, xpath, value, tag_name); path holds the local names of
\* the XPath .//*[local-name()=..]/*[local-name()=..]; success is FALSE where
\* the except clause returns False
upsert_text(t, context, path, value) ==
    LET nodes == XPathPath(t, context, path) IN
    IF nodes # <<>>
    THEN [tree |-> IF XMLCompatible(value) THEN SetText(t, nodes[1], value) ELSE t,
          success |-> XMLCompatible(value)]
    ELSE [tree |-> UpsertWalk(t, context, path, value), success |-> XMLCompatible(value)]

xpath_coeff == <<"PositionCharacteristics", "PositionCoefficient">>
xpath_status == <<"PositionCharacteristics", "PositionStatus", "Code">>

\* _get_classification_from_level
get_classification_from_level(t, context) ==
    LET level_nodes == XPathDescendant(t, context, "PositionLevel")
        nothing == [classification |-> None, note |-> "", fallback_used |-> FALSE]
    IN  IF level_nodes # <<>> /\ t[level_nodes[1]].text # None
        THEN LET level_text == Strip(t[level_nodes[1]].text) IN
             IF CLASSIFICATION_REGEX(level_text)
             THEN [classification |-> level_text, note |-> NoteFallback,
                   fallback_used |-> TRUE]
             ELSE nothing
        ELSE nothing

\* a variant that prefers the position level whenever it is usable
get_classification_LevelFirst(t, context, commande) ==
    LET fromLevel == get_classification_from_level(t, context)
        classif == commande.classification_interimaire
    IN  IF fromLevel.fallback_used THEN fromLevel
        ELSE [classification |-> Strip(classif), note |-> NoteJSON, fallback_used |-> FALSE]

\* a variant that reports the fallback when the record agrees with the level
get_classification_FlagWhenEqual(t, context, commande) ==
    LET fromLevel == get_classification_from_level(t, context)
        classif == commande.classification_interimaire
    IN  IF classif # None /\ Strip(classif) # None
        THEN IF fromLevel.classification = Strip(classif) THEN fromLevel
             ELSE [classification |-> Strip(classif), note |-> NoteJSON,
                   fallback_used |-> FALSE]
        ELSE fromLevel

\* _get_classification
get_classification(t, context, commande) ==
    LET classif == commande.classification_interimaire IN
    IF classif # None /\ Strip(classif) # None
    THEN [classification |-> Strip(classif), note |-> NoteJSON, fallback_used |-> FALSE]
    ELSE get_classification_from_level(t, context)

\* code_statut: splitting from the right instead of at the first hyphen
code_statut_LastHyphen(statut) ==
    IF Contains(statut, "-") THEN Strip(SplitLast(statut, "-")) ELSE Strip(statut)

\* statut.split('-')[0].strip() if '-' in statut else statut.strip()
code_statut(statut) ==
    IF Contains(statut, "-") THEN Strip(SplitFirst(statut, "-")) ELSE Strip(statut)

xpath_description == <<"PositionCharacteristics", "PositionStatus", "Description">>

\* a variant that also writes the record's statut_description
enrich_contract_WithDescription(t, context, commande) ==
    LET c == get_classification(t, context, commande)
        up1 == IF c.classification # None
               THEN upsert_text(t, context, xpath_coeff, c.classification)
               ELSE [tree |-> t, success |-> FALSE]
        statut == commande.statut
        up2 == IF statut # None
               THEN upsert_text(up1.tree, context, xpath_status, code_statut(statut))
               ELSE [tree |-> up1.tree, success |-> FALSE]
        up3 == IF commande.statut_description # None
               THEN upsert_text(up2.tree, context, xpath_description,
                                commande.statut_description)
               ELSE [tree |-> up2.tree, success |-> FALSE]
    IN  [tree |-> up3.tree,
         classification |-> IF up1.success THEN c.classification ELSE NA,
         statut_code |-> IF up2.success THEN code_statut(statut) ELSE NA,
         note |-> IF up1.success THEN c.note ELSE "",
         fallback_used |-> IF up1.success THEN c.fallback_used ELSE FALSE,
         raised |-> FALSE]

\* _enrich_contract: the tree after it and the dictionary it returns. It has no
\* try: classif.strip() (line 386) and '-' in statut (line 358) raise on a value
\* that is not a string, and raised says that the exception left the method
enrich_contract(t, context, commande) ==
    LET classif == commande.classification_interimaire
        statut == commande.statut
        raised == [tree |-> t, classification |-> NA, statut_code |-> NA, note |-> "",
                   fallback_used |-> FALSE, raised |-> TRUE]
    IN  IF classif = JsonNumber THEN raised
        ELSE
          LET c == get_classification(t, context, commande)
              up1 == IF c.classification # None
                     THEN upsert_text(t, context, xpath_coeff, c.classification)
                     ELSE [tree |-> t, success |-> FALSE]
          IN  IF statut = JsonNumber THEN [raised EXCEPT !.tree = up1.tree]
              ELSE
                LET up2 == IF statut # None
                           THEN upsert_text(up1.tree, context, xpath_status,
                                            code_statut(statut))
                           ELSE [tree |-> up1.tree, success |-> FALSE]
                IN  [tree |-> up2.tree,
                     classification |-> IF up1.success THEN c.classification ELSE NA,
                     statut_code |-> IF up2.success THEN code_statut(statut) ELSE NA,
                     note |-> IF up1.success THEN c.note ELSE "",
                     fallback_used |-> IF up1.success THEN c.fallback_used ELSE FALSE,
                     raised |-> FALSE]

\* _apply_classification_fallback: found is FALSE where the source returns None
apply_classification_fallback(t, context) ==
    LET c == get_classification_from_level(t, context)
        coeff_nodes == XPathPath(t, context, xpath_coeff)
        nothing == [tree |-> t, found |-> FALSE, classification |-> None, note |-> ""]
    IN  IF c.classification # None /\ c.fallback_used
        THEN IF coeff_nodes = <<>> \/ Strip(t[coeff_nodes[1]].text) = None
             THEN LET up == upsert_text(t, context, xpath_coeff, c.classification) IN
                  IF up.success
                  THEN [tree |-> up.tree, found |-> TRUE,
                        classification |-> c.classification, note |-> c.note]
                  ELSE nothing
             ELSE nothing
        ELSE nothing

ZeroStats ==
    [total |-> 0, enrichis |-> 0, non_trouves |-> 0, fallback_used |-> 0, details |-> <<>>]

NoResult == [success |-> FALSE, message |-> ""]

\* a prolog without an encoding declaration
NoEncoding == ""

\* tree.docinfo.encoding without lxml's default: None for a prolog that
\* declares no encoding
docinfo_encoding_Undeclared(prolog) == prolog

\* tree.docinfo.encoding: the encoding the prolog declares; lxml's parser gives
\* a parsed document that declares none the encoding "UTF-8"
docinfo_encoding(prolog) == IF prolog = NoEncoding THEN "UTF-8" ELSE prolog

\* the tree that enrich_xml hands to tree.write(output_path, ...)
WrittenTree_Contexts == ctree
WrittenTree == tree

----------------------------------------------------------------------------
(* enrich_xml, one action per step *)

\* tree = etree.parse(xml_path, parser)
ParseInput ==
    /\ UNCHANGED <<processor, monitoring, synchronizer>>
    /\ pc = "start"
    /\ tree' = input
    /\ encoding' = IF docinfo_encoding(declared) # NoEncoding
                   THEN docinfo_encoding(declared) ELSE "iso-8859-1"
    /\ pc' = "parsed"
    /\ UNCHANGED <<commandes_data, input, ctree, contracts, idx, stats, result,
                   outfile, prevOut, pass, declared, outenc>>

\* contracts = self.find_all_order_ids_in_xml(xml_path), which parses the file
\* again, and the return when the list is empty
FindContracts ==
    /\ UNCHANGED <<processor, monitoring, synchronizer>>
    /\ pc = "parsed"
    /\ ctree' = input
    /\ contracts' = find_all_order_ids_in_xml(input)
    /\ idx' = 1
    /\ IF contracts' = <<>>
       THEN /\ result' = [success |-> FALSE, message |-> "Aucun contrat detecte dans le XML"]
            /\ stats' = ZeroStats
            /\ pc' = "done"
       ELSE /\ result' = NoResult
            /\ stats' = [ZeroStats EXCEPT !.total = Len(contracts')]
            /\ pc' = "loop"
    /\ UNCHANGED <<commandes_data, input, tree, outfile, prevOut, pass,
                   declared, encoding, outenc>>

\* "Erreur inattendue": the return of the except Exception clause
Unexpected == [success |-> FALSE, message |-> "Erreur inattendue"]

\* one iteration of the loop, "if commande:" branch; an exception that leaves
\* _enrich_contract ends the loop in the except Exception clause of enrich_xml
EnrichMatched ==
    /\ UNCHANGED <<processor, monitoring, synchronizer>>
    /\ pc = "loop"
    /\ idx <= Len(contracts)
    /\ contracts[idx].order_id \in DOMAIN commandes_data
    /\ LET contract_info == contracts[idx]
           commande == commandes_data[contract_info.order_id]
           modifications == enrich_contract(ctree, contract_info.context, commande)
           detail == [OrderId |-> contract_info.order_id,
                      AssignmentId |-> contract_info.assignment_id,
                      PositionCoefficient |-> modifications.classification,
                      PositionStatusCode |-> modifications.statut_code,
                      matched |-> TRUE,
                      note |-> modifications.note]
       IN  /\ ctree' = modifications.tree
           /\ IF modifications.raised
              THEN /\ stats' = ZeroStats
                   /\ result' = Unexpected
                   /\ pc' = "done"
                   /\ idx' = idx
              ELSE /\ stats' = [stats EXCEPT
                                  !.enrichis = @ + 1,
                                  !.fallback_used =
                                      IF modifications.fallback_used THEN @ + 1 ELSE @,
                                  !.details = Append(@, detail)]
                   /\ result' = result
                   /\ pc' = pc
                   /\ idx' = idx + 1
    /\ UNCHANGED <<commandes_data, input, tree, contracts, outfile, prevOut, pass,
                   declared, encoding, outenc>>

\* one iteration of the loop, else branch: the fallback alone
EnrichUnmatched ==
    /\ UNCHANGED <<processor, monitoring, synchronizer>>
    /\ pc = "loop"
    /\ idx <= Len(contracts)
    /\ contracts[idx].order_id \notin DOMAIN commandes_data
    /\ LET contract_info == contracts[idx]
           fallback_result == apply_classification_fallback(ctree, contract_info.context)
           detail == [OrderId |-> contract_info.order_id,
                      AssignmentId |-> contract_info.assignment_id,
                      PositionCoefficient |->
                          IF fallback_result.found THEN fallback_result.classification
                          ELSE NA,
                      PositionStatusCode |-> NA,
                      matched |-> FALSE,
                      note |-> IF fallback_result.found THEN fallback_result.note
                               ELSE NoteNoData]
       IN  /\ ctree' = fallback_result.tree
           /\ stats' = [stats EXCEPT
                          !.non_trouves = @ + 1,
                          !.fallback_used = IF fallback_result.found THEN @ + 1 ELSE @,
                          !.details = Append(@, detail)]
    /\ idx' = idx + 1
    /\ UNCHANGED <<commandes_data, input, pc, tree, contracts, result, outfile,
                   prevOut, pass, declared, encoding, outenc>>

\* "3. Sauvegarder le XML enrichi" and the return
SaveOutput ==
    /\ UNCHANGED <<processor, monitoring, synchronizer>>
    /\ pc = "loop"
    /\ idx > Len(contracts)
    /\ IF stats.enrichis > 0 \/ stats.fallback_used > 0
       THEN /\ outfile' = WrittenTree
            /\ outenc' = encoding
            /\ result' = [success |-> TRUE, message |-> "XML enrichi avec succes"]
       ELSE /\ outfile' = outfile
            /\ outenc' = outenc
            /\ result' = [success |-> FALSE, message |-> "Aucune modification effectuee"]
    /\ pc' = "done"
    /\ UNCHANGED <<commandes_data, input, tree, ctree, contracts, idx, stats,
                   prevOut, pass, declared, encoding>>

MaxPass == 2

\* the caller runs enrich_xml again, on the file the previous run wrote
RunAgain ==
    /\ UNCHANGED <<processor, monitoring, synchronizer>>
    /\ pc = "done"
    /\ result.success
    /\ pass < MaxPass
    /\ input' = outfile
    /\ declared' = outenc
    /\ prevOut' = outfile
    /\ outfile' = NoFile
    /\ encoding' = NoEncoding
    /\ outenc' = NoEncoding
    /\ pass' = pass + 1
    /\ pc' = "start"
    /\ tree' = NoFile
    /\ ctree' = NoFile
    /\ contracts' = <<>>
    /\ idx' = 1
    /\ stats' = ZeroStats
    /\ result' = NoResult
    /\ UNCHANGED commandes_data

Next ==
    \/ ParseInput
    \/ FindContracts
    \/ EnrichMatched
    \/ EnrichUnmatched
    \/ SaveOutput
    \/ RunAgain

----------------------------------------------------------------------------
(* The documents and tables the runs start from *)

RT001400 == <<"R", "T", "0", "0", "1", "4", "0", "0">>
RT009999 == <<"R", "T", "0", "0", "9", "9", "9", "9">>
Id_LowerPadded == <<" ", " ", "r", "t", "0", "0", "1", "4", "0", "0">>     \* '  rt001400'
Id_LineBreak == <<"R", "T", "\n", "0", "0", "1", "4", "0", "0">>    \* 'RT<newline>001400'
Id_Embedded == <<"X", "R", "T", "0", "0", "1", "4", "0", "0", "9">>      \* 'XRT0014009': re.search finds RT001400 inside
Id_Short == <<"R", "T", "0", "0", "1", "4", "0">>            \* five digits: no pattern matches
Key_Lower == <<"r", "t", "0", "0", "1", "4", "0", "0">>
Key_Padded == <<" ", "R", "T", "0", "0", "1", "4", "0", "0">>
Key_Inner == <<"R", "T", " ", "0", "0", "1", "4", "0", "0">>        \* 'RT 001400'

A2 == <<"A", "2">>
A2_Padded == <<" ", "A", "2", " ">>             \* ' A2 '
B3 == <<"B", "3">>
C1 == <<"C", "1">>
D4 == <<"D", "4">>
F1 == <<"F", "1">>
Blank == <<" ">>               \* ' '
ZZ == <<"Z", "Z">>
OP == <<"O", "P">>
QQ == <<"Q", "Q">>
OldLabel == <<"O", "l", "d">>
Operateur == <<"O", "p", "e", "r", "a", "t", "e", "u", "r">>
St_OP_Operateur == <<"O", "P", " ", "-", " ", "O", "p", "e", "r", "a", "t", "e", "u", "r">>      \* 'OP - Operateur'
St_A_B_C == <<"A", "-", "B", "-", "C">>              \* 'A-B-C'
St_OP_Padded == <<" ", "O", "P", " ">>          \* ' OP '
St_LeadingHyphen == <<" ", "-", " ", "X">>     \* ' - X'
AssignmentText == <<"A", "7", "7">>
A_FF_2 == <<"A", "\f", "2">>       \* 'A<form feed>2': a text lxml refuses

\* an element that the document does not contain
Absent == <<"(absent)">>

\* The shape of the documents: an envelope holding contract A (StaffingOrder)
\* with its reference block, up to two PositionCharacteristics blocks, and
\* optionally contract B (Assignment), beside A or nested inside A.
\*   p.idA, p.idB               text of OrderId/IdValue
\*   p.assignA                  A has AssignmentId/IdValue
\*   p.pcA                      A has a PositionCharacteristics block
\*   p.levelA .. p.coeffB       text of the element, or Absent
\*   p.statusA                  "none", "empty" (PositionStatus without Code),
\*                              "full" (Code and Description)
\*   p.pc2                      A has a second block with PositionStatus/Code
\*   p.placeB                   "none", "sibling", "nested"
Template(p) ==
    LET b == IF p.placeB = "nested" THEN 2 ELSE 1 IN
    (1 :> Node("Envelope", None, RootParent)) @@
    (2 :> Node("StaffingOrder", None, 1)) @@
    (3 :> Node("ReferenceInformation", None, 2)) @@
    (4 :> Node("OrderId", None, 3)) @@
    (5 :> Node("IdValue", p.idA, 4)) @@
    (6 :> Node("AssignmentId", None, 3)) @@
    (7 :> Node("IdValue", AssignmentText, 6)) @@
    (8 :> Node("PositionCharacteristics", None, 2)) @@
    (9 :> Node("PositionLevel", p.levelA, 8)) @@
    (10 :> Node("PositionCoefficient", p.coeffA, 8)) @@
    (11 :> Node("PositionStatus", None, 8)) @@
    (12 :> Node("Code", ZZ, 11)) @@
    (13 :> Node("Description", OldLabel, 11)) @@
    (14 :> Node("PositionCharacteristics", None, 2)) @@
    (15 :> Node("PositionStatus", None, 14)) @@
    (16 :> Node("Code", QQ, 15)) @@
    (17 :> Node("Assignment", None, b)) @@
    (18 :> Node("ReferenceInformation", None, 17)) @@
    (19 :> Node("OrderId", None, 18)) @@
    (20 :> Node("IdValue", p.idB, 19)) @@
    (21 :> Node("PositionCharacteristics", None, 17)) @@
    (22 :> Node("PositionLevel", p.levelB, 21)) @@
    (23 :> Node("PositionCoefficient", p.coeffB, 21)) @@
    (24 :> Node("PositionStatus", None, 21)) @@
    (25 :> Node("Code", p.codeB, 24))

Present(p) ==
    {1, 2, 3, 4, 5}
    \cup (IF p.assignA THEN {6, 7} ELSE {})
    \cup (IF p.pcA
          THEN {8} \cup (IF p.levelA # Absent THEN {9} ELSE {})
                   \cup (IF p.coeffA # Absent THEN {10} ELSE {})
                   \cup (IF p.statusA = "empty" THEN {11} ELSE {})
                   \cup (IF p.statusA = "full" THEN {11, 12, 13} ELSE {})
          ELSE {})
    \cup (IF p.pc2 THEN {14, 15, 16} ELSE {})
    \cup (IF p.placeB # "none"
          THEN {17, 18, 19, 20, 21}
                   \cup (IF p.levelB # Absent THEN {22} ELSE {})
                   \cup (IF p.coeffB # Absent THEN {23} ELSE {})
                   \cup (IF p.codeB # Absent THEN {24, 25} ELSE {})
          ELSE {})

Document(p) == [n \in 1..25 |-> IF n \in Present(p) THEN Template(p)[n] ELSE Hole]

NoB == [placeB |-> "none", idB |-> RT009999, levelB |-> Absent, coeffB |-> Absent,
        codeB |-> Absent]

\* contract A in every shape, contract B absent, beside A or inside A
TreeDocuments ==
    {Document(a @@ b) :
        a \in ([idA : {RT001400}, assignA : {TRUE}, pcA : {TRUE},
                levelA : {Absent, B3}, coeffA : {Absent, None, C1},
                statusA : {"none", "empty", "full"}, pc2 : BOOLEAN]
               \cup
               [idA : {RT001400}, assignA : {TRUE}, pcA : {FALSE},
                levelA : {Absent}, coeffA : {Absent}, statusA : {"none"}, pc2 : BOOLEAN]),
        b \in ({NoB} \cup
               [placeB : {"sibling", "nested"}, idB : {RT009999},
                levelB : {B3}, coeffB : {None, C1}, codeB : {Absent, ZZ}])}

TreeTables ==
    {t1 \o t2 :
        t1 \in {<<>>, <<Row(RT001400, None, St_OP_Operateur, None)>>,
                <<Row(RT001400, A2_Padded, St_OP_Operateur, None)>>,
                <<Row(RT001400, B3, None, None)>>},
        t2 \in {<<>>, <<Row(RT009999, D4, QQ, None)>>}}

\* one contract, the identifier and the key of the table in every spelling
KeyDocuments ==
    {Document(a @@ NoB) :
        a \in [idA : {RT001400, Id_LowerPadded, Id_LineBreak, Id_Embedded, Id_Short},
               assignA : {FALSE}, pcA : {TRUE}, levelA : {B3, F1}, coeffA : {None},
               statusA : {"full"}, pc2 : {FALSE}]}

KeyTables ==
    {<<Row(k, A2, OP, None)>> : k \in {RT001400, Key_Lower, Key_Padded, Key_Inner, None}}

\* one contract with a record, the texts of the record in every spelling
TextDocuments ==
    {Document(a @@ NoB) :
        a \in [idA : {RT001400}, assignA : {FALSE}, pcA : {TRUE}, levelA : {B3, F1},
               coeffA : {None, C1}, statusA : {"full"}, pc2 : {FALSE}]}

StatusTexts ==
    {<<St_OP_Operateur, None>>, <<St_A_B_C, None>>, <<OP, None>>, <<OP, Operateur>>,
     <<St_OP_Padded, None>>, <<St_LeadingHyphen, None>>}

TextTables ==
    {<<Row(RT001400, c, sd[1], sd[2])>> : c \in {A2_Padded, Blank, B3}, sd \in StatusTexts}

StartAs(doc, rows, prolog) ==
    /\ commandes_data = load_commandes(rows)
    /\ input = doc
    /\ declared = prolog
    /\ encoding = NoEncoding
    /\ outenc = NoEncoding
    /\ pc = "start"
    /\ tree = NoFile
    /\ ctree = NoFile
    /\ contracts = <<>>
    /\ idx = 1
    /\ stats = ZeroStats
    /\ result = NoResult
    /\ outfile = NoFile
    /\ prevOut = NoFile
    /\ pass = 1
    /\ processor = NotRunning
    /\ monitoring = NotRunning
    /\ synchronizer = NotRunning

\* a file whose prolog declares ISO-8859-1
Start(doc, rows) == StartAs(doc, rows, "ISO-8859-1")

Init ==
    \/ \E doc \in TreeDocuments, rows \in TreeTables : Start(doc, rows)
    \/ \E doc \in KeyDocuments, rows \in KeyTables : Start(doc, rows)
    \/ \E doc \in TextDocuments, rows \in TextTables : Start(doc, rows)

Spec == Init /\ [][Next]_vars

----------------------------------------------------------------------------
(* enrich_xml on further inputs: a contract whose reference block comes after *)
(* the one of a contract nested in it, records with values that make the      *)
(* enrichment fail, and prologs with and without an encoding                  *)

\* The shape of the documents with two reference blocks: contract Assignment
\* (the inner one) stands before the reference block of contract StaffingOrder
\* (the outer one), inside it or beside it.
\*   p.place                    "nested", "beside"
\*   p.idInner, p.idOuter       text of OrderId/IdValue
AnchorDocument(p) ==
    << Node("Envelope", None, RootParent),
       Node("StaffingOrder", None, 1),
       Node("Assignment", None, IF p.place = "nested" THEN 2 ELSE 1),
       Node("ReferenceInformation", None, 3),
       Node("OrderId", None, 4),
       Node("IdValue", p.idInner, 5),
       Node("PositionCharacteristics", None, 3),
       Node("PositionLevel", B3, 7),
       Node("PositionCoefficient", None, 7),
       Node("ReferenceInformation", None, 2),
       Node("OrderId", None, 10),
       Node("IdValue", p.idOuter, 11),
       Node("AssignmentId", None, 10),
       Node("IdValue", AssignmentText, 13),
       Node("PositionCharacteristics", None, 2),
       Node("PositionLevel", D4, 15),
       Node("PositionCoefficient", C1, 15),
       Node("PositionStatus", None, 15),
       Node("Code", ZZ, 18) >>

AnchorDocuments ==
    {AnchorDocument(p) :
        p \in [place : {"nested", "beside"}, idInner : {RT009999, Id_Short, None},
               idOuter : {RT001400, Id_Short, None}]}

AnchorTables ==
    {t1 \o t2 : t1 \in {<<>>, <<Row(RT001400, A2, OP, None)>>},
                t2 \in {<<>>, <<Row(RT009999, D4, QQ, None)>>}}

O_FF_P == <<"O", "\f", "P">>       \* 'O<form feed>P'

\* two contracts side by side, the first with a record whose values are well
\* formed, refused by lxml, or not strings
FaultDocuments ==
    {Document(a @@ b) :
        a \in [idA : {RT001400}, assignA : {TRUE}, pcA : {TRUE}, levelA : {B3},
               coeffA : {Absent, C1}, statusA : {"full"}, pc2 : {FALSE}],
        b \in [placeB : {"sibling"}, idB : {RT009999}, levelB : {B3}, coeffB : {None},
               codeB : {ZZ}]}

FaultTables ==
    {<<Row(RT001400, c, st, None)>> \o t2 :
        c \in {A2, A_FF_2, JsonNumber}, st \in {OP, O_FF_P, JsonNumber},
        t2 \in {<<>>, <<Row(RT009999, D4, QQ, None)>>}}

\* one contract, with and without a record, under every prolog
EncodingDocuments ==
    {Document(a @@ NoB) :
        a \in [idA : {RT001400}, assignA : {FALSE}, pcA : {TRUE}, levelA : {B3, F1},
               coeffA : {None}, statusA : {"full"}, pc2 : {FALSE}]}

EncodingTables == {<<>>, <<Row(RT001400, A2, OP, None)>>}

Prologs == {NoEncoding, "ISO-8859-1", "UTF-8", "windows-1252"}

\* a StaffingOrder with two reference blocks as its children
\*   p.idFirst, p.idSecond      text of their OrderId/IdValue
SharedDocument(p) ==
    << Node("Envelope", None, RootParent),
       Node("StaffingOrder", None, 1),
       Node("ReferenceInformation", None, 2),
       Node("OrderId", None, 3),
       Node("IdValue", p.idFirst, 4),
       Node("ReferenceInformation", None, 2),
       Node("OrderId", None, 6),
       Node("IdValue", p.idSecond, 7),
       Node("PositionCharacteristics", None, 2),
       Node("PositionLevel", B3, 9),
       Node("PositionCoefficient", None, 9) >>

SharedDocuments ==
    {SharedDocument(p) : p \in [idFirst : {RT001400, Id_Short},
                                idSecond : {RT009999, Id_Short}]}

WideInit ==
    \/ \E doc \in AnchorDocuments, rows \in AnchorTables : Start(doc, rows)
    \/ \E doc \in SharedDocuments, rows \in AnchorTables : Start(doc, rows)
    \/ \E doc \in FaultDocuments, rows \in FaultTables : Start(doc, rows)
    \/ \E doc \in EncodingDocuments, rows \in EncodingTables, prolog \in Prologs :
          StartAs(doc, rows, prolog)

SpecWide == WideInit /\ [][Next]_vars

----------------------------------------------------------------------------
(* _upsert_text on its own: any sequence of calls on one tree *)

\* The shape of the trees: a context (StaffingOrder) whose
\* PositionCharacteristics is its child, sits deeper (inside Extension) or is
\* missing, and whose fields are children of PositionCharacteristics, sit
\* deeper (inside Group) or are missing.
\*   p.pcPlace      "none", "child", "deep"
\*   p.coeff        "none", "child", "deep", "stray" (a child of the context)
\*   p.status       "none", "child", "deep"
\*   p.code         PositionStatus has a Code
\*   p.inner        the context contains a second, empty context (Assignment)
UpsertTemplate(p) ==
    (1 :> Node("Envelope", None, RootParent)) @@
    (2 :> Node("StaffingOrder", None, 1)) @@
    (3 :> Node("Extension", None, 2)) @@
    (4 :> Node("PositionCharacteristics", None, IF p.pcPlace = "deep" THEN 3 ELSE 2)) @@
    (5 :> Node("Group", None, 4)) @@
    (6 :> Node("PositionCoefficient", C1,
               IF p.coeff = "child" THEN 4 ELSE IF p.coeff = "deep" THEN 5 ELSE 2)) @@
    (7 :> Node("PositionStatus", None, IF p.status = "child" THEN 4 ELSE 5)) @@
    (8 :> Node("Code", ZZ, 7)) @@
    (9 :> Node("Assignment", None, 2))

UpsertPresent(p) ==
    {1, 2}
    \cup (IF p.pcPlace = "deep" THEN {3} ELSE {})
    \cup (IF p.pcPlace # "none" THEN {4} ELSE {})
    \cup (IF p.coeff = "deep" \/ p.status = "deep" THEN {5} ELSE {})
    \cup (IF p.coeff # "none" THEN {6} ELSE {})
    \cup (IF p.status # "none" THEN {7} ELSE {})
    \cup (IF p.code THEN {8} ELSE {})
    \cup (IF p.inner THEN {9} ELSE {})

UpsertDocuments ==
    {[n \in 1..9 |-> IF n \in UpsertPresent(p) THEN UpsertTemplate(p)[n] ELSE Hole] :
        p \in {q \in [pcPlace : {"none", "child", "deep"},
                      coeff : {"none", "child", "deep", "stray"},
                      status : {"none", "child", "deep"},
                      code : BOOLEAN, inner : BOOLEAN] :
                  /\ q.pcPlace = "none" => (q.coeff \in {"none", "stray"} /\ q.status = "none")
                  /\ q.status = "none" => ~q.code}}

\* the two XPaths _upsert_text is called with (lines 345, 360, 428)
UpsertPaths == {xpath_coeff, xpath_status}
UpsertValues == {A2, OP, A_FF_2}

\* the elements a call can have as its context
UpsertContexts(t) == {n \in 1..Len(t) : t[n].name \in {"StaffingOrder", "Assignment"}}

UpsertInit ==
    /\ input \in UpsertDocuments
    /\ ctree = input
    /\ pc = "upsert"
    /\ commandes_data = load_commandes(<<>>)
    /\ tree = NoFile
    /\ contracts = <<>>
    /\ idx = 1
    /\ stats = ZeroStats
    /\ result = NoResult
    /\ outfile = NoFile
    /\ prevOut = NoFile
    /\ pass = 1
    /\ declared = NoEncoding
    /\ encoding = NoEncoding
    /\ outenc = NoEncoding
    /\ processor = NotRunning
    /\ monitoring = NotRunning
    /\ synchronizer = NotRunning

\* self._upsert_text(context, xpath, value, tag_name) on the tree as it is
ApplyUpsert ==
    /\ UNCHANGED <<processor, monitoring, synchronizer>>
    /\ pc = "upsert"
    /\ \E context \in UpsertContexts(ctree), path \in UpsertPaths, value \in UpsertValues :
          ctree' = upsert_text(ctree, context, path, value).tree
    /\ UNCHANGED <<commandes_data, input, pc, tree, contracts, idx, stats, result,
                   outfile, prevOut, pass, declared, encoding, outenc>>

UpsertNext == ApplyUpsert

SpecUpsert == UpsertInit /\ [][UpsertNext]_vars

----------------------------------------------------------------------------
(* _upsert_text on documents that declare default namespaces *)

\* The shape of the trees: Envelope > StaffingOrder > PositionCharacteristics,
\* with an optional Assignment inside StaffingOrder; no field exists yet.
\*   p.rootNs       the xmlns of Envelope, or Undeclared
\*   p.orderNs      the xmlns of StaffingOrder, Undeclared, or "" (xmlns="")
\*   p.pc           "none": no PositionCharacteristics; "plain": one without
\*                  xmlns; "declares": one with its own xmlns; "prefixed": one
\*                  with a prefixed name (p:PositionCharacteristics), in the
\*                  namespace of the prefix, that declares no default
\*   p.assignment   the xmlns of the Assignment, or "none" for no Assignment
NamespaceDocument(p) ==
    LET atRoot == IF p.rootNs = Undeclared THEN NoNamespace ELSE p.rootNs
        atOrder == IF p.orderNs = Undeclared THEN atRoot ELSE p.orderNs
        envelope == NsNode("Envelope", None, RootParent, atRoot, p.rootNs)
        order == NsNode("StaffingOrder", None, 1, atOrder, p.orderNs)
        characteristics ==
            CASE p.pc = "plain" ->
                     NsNode("PositionCharacteristics", None, 2, atOrder, Undeclared)
              [] p.pc = "declares" ->
                     NsNode("PositionCharacteristics", None, 2, "urn:position", "urn:position")
              [] p.pc = "prefixed" ->
                     NsNode("PositionCharacteristics", None, 2, "urn:prefixed", Undeclared)
              [] OTHER -> Hole
        assignment ==
            IF p.assignment = "none" THEN Hole
            ELSE NsNode("Assignment", None, 2, p.assignment, p.assignment)
    IN  <<envelope, order, characteristics, assignment>>

NamespaceDocuments ==
    {NamespaceDocument(p) :
        p \in {q \in [rootNs : {Undeclared, "urn:hr-xml"},
                      orderNs : {Undeclared, "urn:order", NoNamespace},
                      pc : {"none", "plain", "declares", "prefixed"},
                      assignment : {"none", "urn:assignment"}] :
                  q.assignment # "none" => (q.pc = "none" /\ q.rootNs # Undeclared)}}

NamespaceInit ==
    /\ input \in NamespaceDocuments
    /\ ctree = input
    /\ pc = "upsert"
    /\ commandes_data = load_commandes(<<>>)
    /\ tree = NoFile
    /\ contracts = <<>>
    /\ idx = 1
    /\ stats = ZeroStats
    /\ result = NoResult
    /\ outfile = NoFile
    /\ prevOut = NoFile
    /\ pass = 1
    /\ declared = NoEncoding
    /\ encoding = NoEncoding
    /\ outenc = NoEncoding
    /\ processor = NotRunning
    /\ monitoring = NotRunning
    /\ synchronizer = NotRunning

SpecNamespace == NamespaceInit /\ [][UpsertNext]_vars

----------------------------------------------------------------------------
(* XMLProcessor (src/src/src/xml_processor.py) *)

\* the name of an element as it is written in the document
QName(node) == IF node.prefix = "" THEN node.name ELSE node.prefix \o ":" \o node.name

\* str.str_lower() on the names and attribute names that occur in the documents
str_lower(key) ==
    CASE key = "OrderId" -> "orderid"
      [] key = "OrderID" -> "orderid"
      [] key = "ns:OrderId" -> "ns:orderid"
      [] key = "ns:PixidOrder" -> "ns:pixidorder"
      [] key = "PixidOrder" -> "pixidorder"
      [] key = "Customer" -> "customer"
      [] key = "ns:Customer" -> "ns:customer"
      [] key = "Reference" -> "reference"
      [] key = "ns:Reference" -> "ns:reference"
      [] OTHER -> key

\* the values of the dictionary xmltodict.parse builds
PyNone == [kind |-> "none"]
PyStr(text) == [kind |-> "str", text |-> text]
PyDict(n) == [kind |-> "dict", node |-> n]
PyList(nodes) == [kind |-> "list", nodes |-> nodes]

\* str() of a dictionary or a list
PyRepr == <<"(repr)">>

\* the attributes xmltodict sees on element n: without process_namespaces a
\* namespace declaration is an attribute like any other
AttrItems(t, n) ==
    (IF t[n].xmlns # Undeclared
     THEN <<[key |-> "xmlns", attr |-> TRUE, value |-> PyStr(<<t[n].xmlns>>)]>>
     ELSE <<>>)
    \o [i \in 1..Len(t[n].attrs) |->
           [key |-> t[n].attrs[i][1], attr |-> TRUE, value |-> PyStr(t[n].attrs[i][2])]]

\* xmltodict: an element without attributes and children is its text, None
\* when it has none; any other element is a dictionary
value_of(t, n) ==
    IF Children(t, n) = <<>> /\ AttrItems(t, n) = <<>>
    THEN (IF t[n].text = <<>> THEN PyNone ELSE PyStr(t[n].text))
    ELSE PyDict(n)

\* the items of the dictionary of element n, in insertion order: attributes
\* ("@name"), then one key per child name as written, a list where the name
\* is repeated, then "#text"
DictItems(t, n) ==
    LET kids == Children(t, n)
        named(c) == SelectSeq(kids, LAMBDA d : QName(t[d]) = QName(t[c]))
        firsts == SelectSeq(kids, LAMBDA c : named(c)[1] = c)
    IN  AttrItems(t, n)
        \o [i \in 1..Len(firsts) |->
               [key |-> QName(t[firsts[i]]), attr |-> FALSE,
                value |-> IF Len(named(firsts[i])) = 1 THEN value_of(t, firsts[i])
                          ELSE PyList(named(firsts[i]))]]
        \o (IF t[n].text # <<>>
            THEN <<[key |-> "#text", attr |-> FALSE, value |-> PyStr(t[n].text)]>>
            ELSE <<>>)

\* the items of a dictionary value, the elements of a list value
ItemsOf(t, data) == IF data.kind = "dict" THEN DictItems(t, data.node) ELSE <<>>
ElementsOf(t, data) ==
    IF data.kind = "list"
    THEN [i \in 1..Len(data.nodes) |-> value_of(t, data.nodes[i])]
    ELSE <<>>

\* xml_dict = xmltodict.parse(xml_content): one key, the root element
RootOf(t) == CHOOSE n \in 1..Len(t) : t[n].parent = RootParent
parse_xml(t) ==
    <<[key |-> QName(t[RootOf(t)]), attr |-> FALSE, value |-> value_of(t, RootOf(t))]>>

LowerAll(keys) == {str_lower(k) : k \in keys}

\* _find_key_recursive(data, keys) on the items of a dictionary and on the
\* elements of a list: the value of the first key that equals one of keys
\* when both are lowercased, else the first result that is not None of the
\* search inside the values
RECURSIVE find_key_recursive(_, _, _, _)
find_key_recursive(t, items, elements, keys) ==
    IF items # <<>>
    THEN LET item == Head(items) IN
         IF ~item.attr /\ str_lower(item.key) \in LowerAll(keys) THEN item.value
         ELSE LET inside == find_key_recursive(t, ItemsOf(t, item.value),
                                               ElementsOf(t, item.value), keys)
              IN  IF inside # PyNone THEN inside
                  ELSE find_key_recursive(t, Tail(items), elements, keys)
    ELSE IF elements # <<>>
    THEN LET inside == find_key_recursive(t, ItemsOf(t, Head(elements)),
                                          ElementsOf(t, Head(elements)), keys)
         IN  IF inside # PyNone THEN inside
             ELSE find_key_recursive(t, <<>>, Tail(elements), keys)
    ELSE PyNone

\* "if order_id:" and str(order_id)
Truthy(data) == data.kind \in {"dict", "list"} \/ (data.kind = "str" /\ data.text # <<>>)
str(data) == IF data.kind = "str" THEN data.text ELSE PyRepr

\* _find_in_attributes(data, keys): the text of the first attribute whose name
\* equals one of keys when both are lowercased; <<>> stands for None
RECURSIVE find_in_attributes(_, _, _, _)
find_in_attributes(t, items, elements, keys) ==
    IF items # <<>>
    THEN LET item == Head(items) IN
         IF item.attr /\ str_lower(item.key) \in LowerAll(keys) THEN str(item.value)
         ELSE LET inside == find_in_attributes(t, ItemsOf(t, item.value),
                                               ElementsOf(t, item.value), keys)
              IN  IF inside # <<>> THEN inside
                  ELSE find_in_attributes(t, Tail(items), elements, keys)
    ELSE IF elements # <<>>
    THEN LET inside == find_in_attributes(t, ItemsOf(t, Head(elements)),
                                          ElementsOf(t, Head(elements)), keys)
         IN  IF inside # <<>> THEN inside
             ELSE find_in_attributes(t, <<>>, Tail(elements), keys)
    ELSE <<>>

\* extract_order_id(xml_content); <<>> stands for None
extract_order_id(t) ==
    LET xml_dict == parse_xml(t)
        order_id == find_key_recursive(t, xml_dict, <<>>,
                                       {"OrderId", "orderid", "order_id", "OrderID"})
    IN  IF Truthy(order_id) THEN str(order_id)
        ELSE find_in_attributes(t, xml_dict, <<>>, {"OrderId", "orderid", "order_id"})

\* XML_FIELD_MAPPING, imported from the package (its definition is not part
\* of the sources at hand): the pairs the tests of XMLProcessor name
XML_FIELD_MAPPING ==
    <<<<"code_agence", "AgencyCode">>,
      <<"code_unite", "UnitCode">>,
      <<"statut", "Status">>,
      <<"niveau_convention_collective", "CollectiveAgreementLevel">>,
      <<"personne_absente", "AbsentPerson">>>>

FieldsFr == {XML_FIELD_MAPPING[i][1] : i \in 1..Len(XML_FIELD_MAPPING)}

\* a key that enrichment_data does not have
Missing == <<"(missing)">>

\* str.lower() of a text
LowerOf(c) ==
    LET capitals == <<"A", "B", "C", "D", "E", "F", "G", "H", "I", "J", "K", "L", "M",
                      "N", "O", "P", "Q", "R", "S", "T", "U", "V", "W", "X", "Y", "Z">>
        smalls == <<"a", "b", "c", "d", "e", "f", "g", "h", "i", "j", "k", "l", "m",
                    "n", "o", "p", "q", "r", "s", "t", "u", "v", "w", "x", "y", "z">>
    IN  IF \E i \in 1..26 : capitals[i] = c
        THEN smalls[CHOOSE i \in 1..26 : capitals[i] = c]
        ELSE c

text_lower(s) == [i \in 1..Len(s) |-> LowerOf(s[i])]

\* str(enrichment_count), datetime.now().isoformat() at the n-th call
IntText(n) == <<(<<"0", "1", "2", "3", "4", "5", "6", "7", "8", "9">>)[n + 1]>>
Timestamp(n) == <<"T">> \o IntText(n)
SourceText == <<"P", "I", "X", "I", "D">>

\* a tag without namespace, as in etree.SubElement(parent, 'Name')
PlainTag(tag) == [ns |-> NoNamespace, name |-> tag]

\* element.find('Name'): the first child named Name that is in no namespace
FindChild(t, n, tag) ==
    SelectSeq(Children(t, n), LAMBDA m : t[m].name = tag /\ t[m].ns = NoNamespace)

\* root.find('.//PIXIDEnrichment'): the first descendant of that name that is
\* in no namespace
FindSection(t, root) ==
    SelectSeq(Descendants(t, root),
              LAMBDA m : t[m].name = "PIXIDEnrichment" /\ t[m].ns = NoNamespace)

\* _find_or_create_pixid_section(root)
find_or_create_pixid_section(t, root) ==
    LET found == FindSection(t, root) IN
    IF found # <<>> THEN [tree |-> t, element |-> found[1]]
    ELSE [tree |-> SubElement(t, root, PlainTag("PIXIDEnrichment")), element |-> NewId(t)]

\* find Name under parent, or create it
find_or_create(t, parent, tag) ==
    LET found == FindChild(t, parent, tag) IN
    IF found # <<>> THEN [tree |-> t, element |-> found[1]]
    ELSE [tree |-> SubElement(t, parent, PlainTag(tag)), element |-> NewId(t)]

\* _update_or_create_element(parent, tag, value); element.text = value raises
\* on a value lxml refuses, after the element was created
update_or_create_element(t, parent, tag, value) ==
    LET at == find_or_create(t, parent, tag) IN
    [tree |-> IF XMLCompatible(value) THEN SetText(at.tree, at.element, value) ELSE at.tree,
     raised |-> ~XMLCompatible(value)]

\* a test that takes every value the data has
usable_AnyPresent(value) == value # Missing

\* "field_fr in enrichment_data and enrichment_data[field_fr]", then
\* "value and value.lower() not in ['nan', 'none', 'null', '']"
usable(value) ==
    /\ value # Missing
    /\ value # <<>>
    /\ text_lower(value) \notin {<<"n", "a", "n">>, <<"n", "o", "n", "e">>,
                                 <<"n", "u", "l", "l">>, <<>>}

\* the loop over self.field_mapping.items()
RECURSIVE EnrichFields(_, _, _, _, _)
EnrichFields(t, section, fields, data, count) ==
    IF fields = <<>> THEN [tree |-> t, count |-> count, raised |-> FALSE]
    ELSE LET field_fr == Head(fields)[1]
             field_en == Head(fields)[2]
         IN  IF usable(data[field_fr])
             THEN LET r == update_or_create_element(t, section, field_en, data[field_fr]) IN
                  IF r.raised THEN [tree |-> r.tree, count |-> count, raised |-> TRUE]
                  ELSE EnrichFields(r.tree, section, Tail(fields), data, count + 1)
             ELSE EnrichFields(t, section, Tail(fields), data, count)

\* XMLProcessor.enrich_xml(xml_content, enrichment_data), the n-th call:
\* returned is FALSE where the except clause returns None
processor_enrich_xml(t, data, n) ==
    LET root == RootOf(t)
        pixid == find_or_create_pixid_section(t, root)
        fields == EnrichFields(pixid.tree, pixid.element, XML_FIELD_MAPPING, data, 0)
        metadata == find_or_create(fields.tree, pixid.element, "EnrichmentMetadata")
        stamp == find_or_create(metadata.tree, metadata.element, "Timestamp")
        stamped == SetText(stamp.tree, stamp.element, Timestamp(n))
        count == find_or_create(stamped, metadata.element, "FieldsEnriched")
        counted == SetText(count.tree, count.element, IntText(fields.count))
        source == find_or_create(counted, metadata.element, "Source")
    IN  IF fields.raised THEN [tree |-> t, returned |-> FALSE]
        ELSE [tree |-> SetText(source.tree, source.element, SourceText), returned |-> TRUE]

\* etree.tostring(root, ...) followed by the parse of the next call.  An
\* element created in no namespace below a default namespace is written
\* either with xmlns="" (undeclares) or as a bare name, which a parser reads
\* back into the default namespace; which of the two depends on the build
Reparse(t, undeclares) ==
    [n \in 1..Len(t) |->
        IF /\ t[n].parent \in 1..Len(t)
           /\ t[n].ns = NoNamespace
           /\ t[n].xmlns = Undeclared
           /\ nsmap_default(t, t[n].parent) # NoNamespace
        THEN IF ~undeclares THEN [t[n] EXCEPT !.ns = nsmap_default(t, t[n].parent)]
             ELSE IF t[t[n].parent].ns # NoNamespace
                  THEN [t[n] EXCEPT !.xmlns = NoNamespace]
                  ELSE t[n]
        ELSE t[n]]

\* the variables of enrich_xml of XMLEnricher, which the other programs leave
\* alone
enricher == <<commandes_data, input, pc, tree, ctree, contracts, idx, stats, result,
              outfile, prevOut, pass, declared, encoding, outenc>>

EnricherNotRunning ==
    /\ commandes_data = load_commandes(<<>>)
    /\ input = NoFile
    /\ pc = "idle"
    /\ tree = NoFile
    /\ ctree = NoFile
    /\ contracts = <<>>
    /\ idx = 1
    /\ stats = ZeroStats
    /\ result = NoResult
    /\ outfile = NoFile
    /\ prevOut = NoFile
    /\ pass = 1
    /\ declared = NoEncoding
    /\ encoding = NoEncoding
    /\ outenc = NoEncoding

\* extract_order_id was not called yet
NotCalled == <<"(not called)">>

\* XMLProcessor with the document it is given
ProcessorStart(doc, build) ==
    [document |-> doc,                \* xml_content, as a parser reads it
     enrichment_data |-> [f \in FieldsFr |-> Missing],   \* of the last enrich_xml
     order_id |-> NotCalled,          \* what extract_order_id returned
     returned |-> FALSE,              \* did the last enrich_xml return bytes
     calls |-> 0,                     \* number of enrich_xml calls so far
     undeclares |-> build]            \* see Reparse

\* order_id = processor.extract_order_id(xml_content)
ExtractOrderId ==
    /\ processor # NotRunning
    /\ processor.order_id = NotCalled
    /\ processor' = [processor EXCEPT !.order_id = extract_order_id(processor.document)]
    /\ UNCHANGED <<enricher, monitoring, synchronizer>>

ExtractNext == ExtractOrderId

N67890 == <<"6", "7", "8", "9", "0">>
N11111 == <<"1", "1", "1", "1", "1">>
Active == <<"A", "c", "t", "i", "v", "e">>
PixidSchema == "http://pixid.fr/schema"

\* an element written in the style of the document: bare names, bare names
\* under a default namespace, or names with the prefix ns
Styled(style, name, text, parent, attrs) ==
    CASE style = "plain" -> Element(name, text, parent, NoNamespace, Undeclared, "", attrs)
      [] style = "default" ->
             Element(name, text, parent, PixidSchema,
                     IF parent = RootParent THEN PixidSchema ELSE Undeclared, "", attrs)
      [] style = "prefixed" ->
             Element(name, text, parent, PixidSchema, Undeclared, "ns",
                     (IF parent = RootParent THEN <<<<"xmlns:ns", <<PixidSchema>>>>>>
                      ELSE <<>>) \o attrs)

\* The documents extract_order_id is given:
\*   p.style    "plain", "default", "prefixed"
\*   p.order    where the order id is: "child" of the root, "nested" in
\*              Customer, "repeated" (two elements of the name), "attribute"
\*              of the root, "none" (a Reference element instead)
\*   p.name     the name of the element or attribute
\*   p.idText   its text
\*   p.before   a Status element comes first
ExtractDocument(p) ==
    LET rootAttrs == IF p.order = "attribute" THEN <<<<p.name, p.idText>>>> ELSE <<>>
        orderName == IF p.order = "none" THEN "Reference" ELSE p.name
    IN  <<Styled(p.style, "PixidOrder", None, RootParent, rootAttrs),
          IF p.before THEN Styled(p.style, "Status", Active, 1, <<>>) ELSE Hole,
          IF p.order = "nested" THEN Styled(p.style, "Customer", None, 1, <<>>) ELSE Hole,
          IF p.order = "attribute" THEN Hole
          ELSE Styled(p.style, orderName, p.idText, IF p.order = "nested" THEN 3 ELSE 1, <<>>),
          IF p.order = "repeated" THEN Styled(p.style, orderName, N11111, 1, <<>>) ELSE Hole>>

ExtractDocuments ==
    {ExtractDocument(p) :
        p \in {q \in [style : {"plain", "default", "prefixed"},
                      order : {"child", "nested", "repeated", "attribute", "none"},
                      name : {"OrderId", "orderid", "OrderID", "order_id"},
                      idText : {N67890, None},
                      before : BOOLEAN] :
                  /\ q.order = "none" => (q.name = "OrderId" /\ q.idText = N67890)
                  /\ q.order \in {"attribute", "repeated"} =>
                         (q.name \in {"OrderId", "orderid"} /\ q.idText = N67890)
                  /\ q.order = "nested" => q.name \in {"OrderId", "order_id"}}}

ExtractInit ==
    /\ EnricherNotRunning
    /\ \E doc \in ExtractDocuments : processor = ProcessorStart(doc, TRUE)
    /\ monitoring = NotRunning
    /\ synchronizer = NotRunning

SpecExtract == ExtractInit /\ [][ExtractNext]_vars

----------------------------------------------------------------------------
(* XMLProcessor.enrich_xml, called again and again on what it returned *)

MaxCalls == 2

AG1 == <<"A", "G", "1">>
UN1 == <<"U", "N", "1">>
OldCode == <<"O", "L", "D">>
Keep == <<"K", "e", "e", "p">>
Confirmed == <<"O", "k">>
Text_nan == <<"n", "a", "n">>
Text_NaN == <<"N", "a", "N">>
Text_None == <<"N", "o", "n", "e">>
Text_NULL == <<"N", "U", "L", "L">>

\* the dictionaries enrich_xml is given: code_agence and statut in every form
\* the code tells apart, the other keys missing; <<>> is None as well as ''
EnrichmentData ==
    {[f \in FieldsFr |-> CASE f = "code_agence" -> agence
                           [] f = "statut" -> statut
                           [] OTHER -> Missing] :
        agence \in {Missing, None, Text_nan, Text_NaN, Text_NULL, AG1, A_FF_2},
        statut \in {Text_None, Confirmed}}

\* enriched = processor.enrich_xml(xml_content, enrichment_data); the next call
\* is given the bytes this one returned, or the same document when it returned
\* None
EnrichXml ==
    /\ processor # NotRunning
    /\ processor.calls < MaxCalls
    /\ \E data \in EnrichmentData :
          LET r == processor_enrich_xml(processor.document, data, processor.calls + 1) IN
          processor' = [processor EXCEPT
                           !.document = IF r.returned
                                        THEN Reparse(r.tree, processor.undeclares) ELSE @,
                           !.enrichment_data = data,
                           !.returned = r.returned,
                           !.calls = @ + 1]
    /\ UNCHANGED <<enricher, monitoring, synchronizer>>

ProcessorNext == EnrichXml

\* The documents enrich_xml is given: Order > OrderId, written in one of the
\* three styles, and
\*   p.section   "none": no PIXIDEnrichment; "bare": a PIXIDEnrichment in no
\*               namespace; "styled": one written in the style of the document
\* The section holds an AgencyCode and an ExistingField.
SectionDocument(p) ==
    LET inSection(name, text, parent) ==
            IF p.section = "styled" THEN Styled(p.style, name, text, parent, <<>>)
            ELSE Element(name, text, parent, NoNamespace,
                         IF p.style = "default" /\ parent = 1 THEN NoNamespace ELSE Undeclared,
                         "", <<>>)
    IN  <<Styled(p.style, "Order", None, RootParent, <<>>),
          Styled(p.style, "OrderId", N67890, 1, <<>>)>>
        \o (IF p.section = "none" THEN <<>>
            ELSE <<inSection("PIXIDEnrichment", None, 1),
                   inSection("AgencyCode", OldCode, 3),
                   inSection("ExistingField", Keep, 3)>>)

SectionDocuments ==
    {SectionDocument(p) : p \in [style : {"plain", "default", "prefixed"},
                                 section : {"none", "bare", "styled"}]}

ProcessorInit ==
    /\ EnricherNotRunning
    /\ \E doc \in SectionDocuments, build \in BOOLEAN : processor = ProcessorStart(doc, build)
    /\ monitoring = NotRunning
    /\ synchronizer = NotRunning

SpecProcessor == ProcessorInit /\ [][ProcessorNext]_vars

----------------------------------------------------------------------------
\* monitoring_data.json and its two writers: MonitoringCollector.finalize_run
\* (monitoring.py) and PIXIDSynchronizer.generate_monitoring_stats
\* (sync_drive_to_sheet.py).  `monitoring` is a record
\*   file        what is on disk (exists, valid JSON or not, the keys of the
\*               stored dict, its 'runs', 'total_runs' and 'history')
\*   finalized   the runs finalize_run was called for, in order of call
\*   generated   the statistics generate_monitoring_stats was called for
\* A run is its number in `finalized`; a run whose metrics json cannot
\* serialise (record_metric takes any value) is written as the negative number.

MaxWrites == 4
RunsKept == 1000
HistoryKept == 100

KeepLast(s, n) == IF Len(s) <= n THEN s ELSE SubSeq(s, Len(s) - n + 1, Len(s))

NoDataFile ==
    [exists |-> FALSE, valid |-> FALSE, keys |-> {}, runs |-> <<>>, total_runs |-> 0,
     history |-> <<>>]

\* _load_history: the stored dict, or the default structure when the file is
\* absent or cannot be read as JSON
load_history(file) ==
    IF file.exists /\ file.valid THEN file
    ELSE [exists |-> TRUE, valid |-> TRUE,
          keys |-> {"version", "created", "last_update", "total_runs", "runs"},
          runs |-> <<>>, total_runs |-> 0, history |-> <<>>]

Serialisable(run) == run > 0

\* history.get('runs', []) of the loaded file, as get_statistics reads it, and
\* data.get('history', []) as generate_monitoring_stats reads it
get_runs(file) ==
    LET history == load_history(file)
    IN  IF "runs" \in history.keys THEN history.runs ELSE <<>>

get_history(file) ==
    IF file.exists /\ file.valid /\ "history" \in file.keys THEN file.history ELSE <<>>

\* history['runs'][-1000:]
runs_kept(runs) == KeepLast(runs, RunsKept)

\* _save_run: the file after the call.  history['runs'] of a dict without that
\* key raises KeyError before anything is written; json.dump of a run it cannot
\* serialise raises after open(..., 'w') emptied the file.  Both are caught.
save_run(file, run) ==
    LET history == load_history(file)
        runs == runs_kept(Append(history.runs, run))
    IN  IF "runs" \notin history.keys THEN file
        ELSE IF ~Serialisable(run)
             THEN [NoDataFile EXCEPT !.exists = TRUE]
        ELSE [history EXCEPT !.keys = @ \cup {"last_update", "total_runs"},
                             !.runs = runs,
                             !.total_runs = Len(runs)]

\* generate_monitoring_stats: the file after the call.  A file that is not
\* JSON raises in json.load and the file is left as it is.
save_stats(file, stat) ==
    IF file.exists /\ ~file.valid THEN file
    ELSE LET history == get_history(file)
         IN  [NoDataFile EXCEPT !.exists = TRUE, !.valid = TRUE,
                            !.keys = {"last_update", "history"},
                            !.history = KeepLast(Append(history, stat), HistoryKept)]

FinalizeRun ==
    /\ monitoring # NotRunning
    /\ Len(monitoring.finalized) + Len(monitoring.generated) < monitoring.before + MaxWrites
    /\ \E serialisable \in BOOLEAN :
          LET n == Len(monitoring.finalized) + 1
              run == IF serialisable THEN n ELSE 0 - n
          IN  monitoring' = [monitoring EXCEPT
                                !.file = save_run(@, run),
                                !.finalized = Append(@, run)]
    /\ UNCHANGED <<enricher, processor, synchronizer>>

GenerateMonitoringStats ==
    /\ monitoring # NotRunning
    /\ Len(monitoring.finalized) + Len(monitoring.generated) < monitoring.before + MaxWrites
    /\ LET stat == Len(monitoring.generated) + 1
       IN  monitoring' = [monitoring EXCEPT
                             !.file = save_stats(@, stat),
                             !.generated = Append(@, stat)]
    /\ UNCHANGED <<enricher, processor, synchronizer>>

MonitoringNext == FinalizeRun \/ GenerateMonitoringStats

Count(n) == [i \in 1..n |-> i]

\* The file the writers start from: absent, or left by RunsKept - 1 earlier
\* finalize_run calls, or by HistoryKept - 1 earlier generate_monitoring_stats
\* calls.
MonitoringStart(writer) ==
    LET runs == IF writer = "collector" THEN Count(RunsKept - 1) ELSE <<>>
        history == IF writer = "synchronizer" THEN Count(HistoryKept - 1) ELSE <<>>
        file == IF writer = "collector"
                THEN [load_history(NoDataFile) EXCEPT !.runs = runs, !.total_runs = Len(runs)]
                ELSE IF writer = "synchronizer"
                THEN [NoDataFile EXCEPT !.exists = TRUE, !.valid = TRUE,
                                    !.keys = {"last_update", "history"},
                                    !.history = history]
                ELSE NoDataFile
    IN  [file |-> file, finalized |-> runs, generated |-> history,
         before |-> Len(runs) + Len(history)]

MonitoringInit ==
    /\ EnricherNotRunning
    /\ processor = NotRunning
    /\ \E writer \in {"none", "collector", "synchronizer"} :
          monitoring = MonitoringStart(writer)
    /\ synchronizer = NotRunning

SpecMonitoring == MonitoringInit /\ [][MonitoringNext]_vars

----------------------------------------------------------------------------
\* PIXIDSynchronizer (sync_drive_to_sheet.py) with the Drive and Sheets clients
\* of google_client.py.  `synchronizer` is a record
\*   drive        the files of the Drive folder, in the order they are listed
\*   sheet        the rows of the sheet under the header row
\*   state_file   the processed_files stored in sync_state.json
\*   instance     whether a PIXIDSynchronizer has been constructed
\*   cache        its drive client's _processed_files_cache
\*   syncs        the number of sync() calls so far
\*   last         what the last sync() did: the files listed, the ones whose
\*                download failed, the batch given to append_rows, whether the
\*                append raised, the sheet before it and the count returned
\* A Drive file is a record of its id and of what the parser extracts from it;
\* "" is a field that was not extracted.

MaxSyncs == 2

DriveFile(id, numero_commande, code_agence, code_unite) ==
    [id |-> id, numero_commande |-> numero_commande,
     code_agence |-> code_agence, code_unite |-> code_unite]

\* Two mails for the same order, one for another order, one with nothing to
\* extract.
AllFiles ==
    <<DriveFile("f1", "CMD1", "AG1", ""),
      DriveFile("f2", "CMD1", "", "UN1"),
      DriveFile("f3", "CMD2", "AG1", ""),
      DriveFile("f4", "", "", "")>>

SheetRow(file) == [file_id |-> file.id, numero_commande |-> file.numero_commande]

IdsOf(files) == {files[i].id : i \in 1..Len(files)}

\* _evaluate_extraction: 'failed' without an order number or without any of
\* the two codes ('partial' is handled as 'success' by _process_files)
evaluate_extraction(data) ==
    IF data.numero_commande = "" \/ (data.code_agence = "" /\ data.code_unite = "")
    THEN "failed" ELSE "success"

\* list_files(only_new=True): the files of the folder not in the cache
list_files(drive, cache) == SelectSeq(drive, LAMBDA f : f.id \notin cache)

\* _process_files over the listed files.  download_file returns None for a
\* file in `unreachable` (HttpError) and otherwise adds the id to the cache
\* before returning the content.
RECURSIVE process_files(_, _, _, _)
process_files(files, unreachable, cache, processed_data) ==
    IF files = <<>> THEN [cache |-> cache, processed_data |-> processed_data]
    ELSE LET file == Head(files)
             downloaded == cache \cup {file.id}
         IN  IF file.id \in unreachable
             THEN process_files(Tail(files), unreachable, cache, processed_data)
             ELSE IF evaluate_extraction(file) = "failed"
             THEN process_files(Tail(files), unreachable, downloaded, processed_data)
             ELSE process_files(Tail(files), unreachable, downloaded,
                                Append(processed_data, SheetRow(file)))

\* append_rows(data, check_duplicates=True): the sheet after the call and the
\* count returned.  `raises` is a failure of the Sheets API inside the try.
append_rows(sheet, data, raises) ==
    IF data = <<>> \/ raises THEN [sheet |-> sheet, returned |-> 0]
    ELSE LET existing_orders == {sheet[i].numero_commande : i \in 1..Len(sheet)}
             new == IF sheet # <<>>
                    THEN SelectSeq(data, LAMBDA r : r.numero_commande \notin existing_orders)
                    ELSE data
         IN  [sheet |-> sheet \o new, returned |-> Len(new)]

\* get_processed_file_ids: the file_id column of the sheet
get_processed_file_ids(sheet) == {sheet[i].file_id : i \in 1..Len(sheet)}

NoSync ==
    [files |-> <<>>, unreachable |-> {}, processed_data |-> <<>>, raised |-> FALSE,
     before |-> <<>>, returned |-> 0]

\* PIXIDSynchronizer(...): _load_state puts the stored ids in the cache
NewSynchronizer ==
    /\ synchronizer # NotRunning
    /\ synchronizer.syncs < MaxSyncs
    /\ synchronizer' = [synchronizer EXCEPT !.instance = TRUE,
                                            !.cache = synchronizer.state_file]
    /\ UNCHANGED <<enricher, processor, monitoring>>

\* sync(): _open_sheet, _list_files, _process_files, _add_to_sheet when there
\* is data, _save_state
Sync ==
    /\ synchronizer # NotRunning
    /\ synchronizer.instance
    /\ synchronizer.syncs < MaxSyncs
    /\ \E unreachable \in SUBSET IdsOf(synchronizer.drive), raises \in BOOLEAN :
          LET opened == synchronizer.cache \cup get_processed_file_ids(synchronizer.sheet)
              files == list_files(synchronizer.drive, opened)
              done == process_files(files, unreachable, opened, <<>>)
              added == append_rows(synchronizer.sheet, done.processed_data, raises)
          IN  /\ unreachable \subseteq IdsOf(files)
              /\ raises => done.processed_data # <<>>
              /\ synchronizer' =
                    [synchronizer EXCEPT
                        !.sheet = added.sheet,
                        !.cache = done.cache,
                        !.state_file = done.cache,
                        !.syncs = @ + 1,
                        !.last = [files |-> files, unreachable |-> unreachable,
                                  processed_data |-> done.processed_data,
                                  raised |-> raises,
                                  before |-> synchronizer.sheet,
                                  returned |-> added.returned]]
    /\ UNCHANGED <<enricher, processor, monitoring>>

SyncNext == NewSynchronizer \/ Sync

\* The folders: every non-empty choice among the four files, with an empty
\* sheet or a sheet that already holds the row of an earlier file for CMD1.
SyncStart(ids, filled) ==
    [drive |-> SelectSeq(AllFiles, LAMBDA f : f.id \in ids),
     sheet |-> IF filled THEN <<[file_id |-> "f0", numero_commande |-> "CMD1"]>> ELSE <<>>,
     state_file |-> IF filled THEN {"f0"} ELSE {},
     instance |-> FALSE,
     cache |-> {},
     syncs |-> 0,
     last |-> NoSync]

SyncInit ==
    /\ EnricherNotRunning
    /\ processor = NotRunning
    /\ monitoring = NotRunning
    /\ \E ids \in SUBSET IdsOf(AllFiles), filled \in BOOLEAN :
          /\ ids # {}
          /\ synchronizer = SyncStart(ids, filled)

SpecSync == SyncInit /\ [][SyncNext]_vars

----------------------------------------------------------------------------
(* What the specification says, stated independently of the operators above *)

\* a text without its leading and trailing whitespace
TrimOf(s) ==
    LET solid == {i \in 1..Len(s) : s[i] \notin Whitespace} IN
    IF solid = {} THEN <<>>
    ELSE SubSeq(s, CHOOSE i \in solid : \A j \in solid : i <= j,
                   CHOOSE i \in solid : \A j \in solid : j <= i)

\* the status code of a status text: left of the first hyphen, trimmed
CodeOf(statut) ==
    LET hyphens == {i \in 1..Len(statut) : statut[i] = "-"} IN
    IF hyphens = {} THEN TrimOf(statut)
    ELSE TrimOf(SubSeq(statut, 1, (CHOOSE i \in hyphens : \A j \in hyphens : i <= j) - 1))

\* the text of the first node an XPath finds in a context, Absent if none
FirstText(t, context, path) ==
    IF XPathPath(t, context, path) = <<>> THEN Absent
    ELSE t[XPathPath(t, context, path)[1]].text

\* the loop has handled at least one contract; Last is the one handled last
Handled == pc \in {"loop", "done"} /\ Len(stats.details) >= 1
Last == Len(stats.details)
LastContext == contracts[Last].context
LastMatched == contracts[Last].order_id \in DOMAIN commandes_data
LastCommande == commandes_data[contracts[Last].order_id]

\* C1: after a successful run the document written to output_path is the tree
\* the contexts belong to, and holds for every contract the PositionCoefficient
\* and PositionStatus/Code values that stats['details'] reports for it.
C1_OutputCarriesReportedValues ==
    (pc = "done" /\ result.success) =>
        /\ outfile = ctree
        /\ \A i \in 1..Len(stats.details) :
              LET d == stats.details[i]
                  context == contracts[i].context
              IN  /\ d.PositionCoefficient # NA =>
                        FirstText(outfile, context, xpath_coeff) = d.PositionCoefficient
                  /\ d.PositionStatusCode # NA =>
                        FirstText(outfile, context, xpath_status) = d.PositionStatusCode

C3_StatusCodeLeftOfFirstHyphen ==
    (Handled /\ LastMatched /\ LastCommande.statut # None) =>
        /\ stats.details[Last].PositionStatusCode = CodeOf(LastCommande.statut)
        /\ FirstText(ctree, LastContext, xpath_status) = CodeOf(LastCommande.statut)
        /\ LastCommande.statut = St_OP_Operateur =>
              stats.details[Last].PositionStatusCode = OP
        /\ LastCommande.statut = St_A_B_C =>
              stats.details[Last].PositionStatusCode = <<"A">>

\* C3 witness: the status 'A-B-C' gave the code 'A'.
C3_Witness ==
    /\ Handled /\ LastMatched
    /\ LastCommande.statut = St_A_B_C
    /\ FirstText(ctree, LastContext, xpath_status) = <<"A">>

\* C4: after a matched contract with a non-empty status is handled, every
\* PositionStatus/Code node of its context holds the resolved code, and a context
\* that had none has exactly one.
C4_EveryStatusCodeNodeSet ==
    (Handled /\ LastMatched /\ LastCommande.statut # None) =>
        /\ \A n \in Range(XPathPath(ctree, LastContext, xpath_status)) :
              ctree[n].text = CodeOf(LastCommande.statut)
        /\ XPathPath(tree, LastContext, xpath_status) = <<>> =>
              Len(XPathPath(ctree, LastContext, xpath_status)) = 1

\* the label of a status code in the code-to-label table of the specification
StatusLabel(code) == IF code = OP THEN Operateur ELSE None

\* the description the specification resolves for a record
DescriptionOf(commande) ==
    IF commande.statut_description # None THEN commande.statut_description
    ELSE IF commande.statut # None THEN StatusLabel(CodeOf(commande.statut))
    ELSE None

IsClassificationText(s) ==
    \E letter \in {"A", "B", "C", "D", "E"}, d1 \in DigitChars :
        \/ s = <<letter, d1>>
        \/ \E d2 \in DigitChars : s = <<letter, d1, d2>>

\* the contract's current PositionLevel text, trimmed; <<>> if it has none
LevelText(t, context) ==
    IF XPathDescendant(t, context, "PositionLevel") = <<>> THEN <<>>
    ELSE TrimOf(t[XPathDescendant(t, context, "PositionLevel")[1]].text)

\* the contract's current coefficient is missing or blank
CoefficientEmpty(t, context) ==
    \/ XPathPath(t, context, xpath_coeff) = <<>>
    \/ TrimOf(FirstText(t, context, xpath_coeff)) = <<>>

\* C6: a step of the loop uses the position-level fallback (and counts it in
\* fallback_used) only if no record matched the contract's order id, the
\* contract's coefficient was empty and its PositionLevel text is one letter A-E
\* followed by one or two digits.
C6_FallbackOnlyUnmatchedAndEmpty ==
    [][(pc = "loop" /\ idx' = idx + 1 /\ stats'.fallback_used = stats.fallback_used + 1)
          => /\ contracts[idx].order_id \notin DOMAIN commandes_data
             /\ CoefficientEmpty(ctree, contracts[idx].context)
             /\ IsClassificationText(LevelText(ctree, contracts[idx].context))]_vars

\* the contracts handled so far whose record has a classification that is
\* non-empty after trimming
Classified(i) ==
    /\ contracts[i].order_id \in DOMAIN commandes_data
    /\ TrimOf(commandes_data[contracts[i].order_id].classification_interimaire) # <<>>

\* C7: the fallback never fires for a contract that has a record with a
\* classification non-empty after trimming: its note is never the fallback note
\* and it is not counted in fallback_used, which counts the fallback notes only.
C7_NoFallbackWhenClassified ==
    pc \in {"loop", "done"} =>
        /\ \A i \in 1..Len(stats.details) :
              Classified(i) => stats.details[i].note # NoteFallback
        /\ stats.fallback_used
              = Cardinality({i \in 1..Len(stats.details) :
                                stats.details[i].note = NoteFallback})

\* C7 witness: the record's classification 'B3' equals the PositionLevel text of
\* the contract, and the note is the record's.
C7_Witness ==
    /\ Handled /\ LastMatched
    /\ LastCommande.classification_interimaire = B3
    /\ LevelText(tree, LastContext) = B3
    /\ stats.details[Last].note = NoteJSON
    /\ stats.fallback_used = 0

\* str.upper() on one character
UpperOf(c) ==
    LET lower == <<"a", "b", "c", "d", "e", "f", "g", "h", "i", "j", "k", "l", "m",
                   "n", "o", "p", "q", "r", "s", "t", "u", "v", "w", "x", "y", "z">>
        upper == <<"A", "B", "C", "D", "E", "F", "G", "H", "I", "J", "K", "L", "M",
                   "N", "O", "P", "Q", "R", "S", "T", "U", "V", "W", "X", "Y", "Z">>
    IN  IF \E i \in 1..26 : lower[i] = c
        THEN upper[CHOOSE i \in 1..26 : lower[i] = c]
        ELSE c

\* the normalized key of the specification: upper-cased, all whitespace removed
Normalize(s) == [i \in 1..Len(SelectSeq(s, LAMBDA c : c \notin Whitespace)) |->
                    UpperOf(SelectSeq(s, LAMBDA c : c \notin Whitespace)[i])]

\* the order-id text of a context: OrderId/IdValue of its reference block
IdTextOf(t, context) ==
    LET anchors == SelectSeq(Children(t, context),
                             LAMBDA r : /\ t[r].name = "ReferenceInformation"
                                        /\ XPathChildChild(t, r, "OrderId", "IdValue") # <<>>)
    IN  t[XPathChildChild(t, anchors[1], "OrderId", "IdValue")[1]].text

\* C8: at the end of a run, every contract of the document whose normalized
\* order-id text equals the normalized key of a table record is reported as
\* matched.
C8_NormalizedKeysMatch ==
    pc = "done" =>
        \A context \in Range(ContextsOf(input)) :
            (\E k \in DOMAIN commandes_data :
                Normalize(k) = Normalize(IdTextOf(input, context)))
            => \E i \in 1..Len(stats.details) :
                  contracts[i].context = context /\ stats.details[i].matched

\* the nearest ancestor of a node that is a contract context, RootParent if none
RECURSIVE OwnerOf(_, _, _)
OwnerOf(t, n, contexts) ==
    IF n \notin 1..Len(t) \/ t[n].parent \notin 1..Len(t) THEN RootParent
    ELSE IF t[n].parent \in contexts THEN t[n].parent
    ELSE OwnerOf(t, t[n].parent, contexts)

\* C9: the step that enriches a matched contract changes only target fields of
\* that contract (PositionCoefficient, PositionStatus/Code, the status
\* description) and ancestors of them that it creates; every other node, the
\* fields of every other contract included, is unchanged.
C9_ExactScope ==
    [][(pc = "loop" /\ idx' = idx + 1 /\ contracts[idx].order_id \in DOMAIN commandes_data)
          => \A n \in 1..Len(ctree') :
                (n > Len(ctree) \/ ctree'[n] # ctree[n]) =>
                    /\ \/ ctree'[n].name \in {"PositionCoefficient", "Code", "Description"}
                       \/ /\ n > Len(ctree)
                          /\ ctree'[n].name \in {"PositionCharacteristics", "PositionStatus"}
                    /\ OwnerOf(ctree', n, {contracts[j].context : j \in 1..Len(contracts)})
                          = contracts[idx].context]_vars

----------------------------------------------------------------------------
(* _upsert_text *)

\* the elements of the tree that _upsert_text created: parsing numbered the
\* elements of the document first
Created(t) == {n \in 1..Len(t) : n > Len(input) /\ t[n].parent # Detached}

\* C11: _upsert_text is idempotent, and never duplicates siblings: on every
\* tree that calls of _upsert_text can produce, a call with any context, path
\* and value followed by the same call gives the tree the first call gave, and
\* no element has two children of the same name that _upsert_text created.
C11_IdempotentNoDuplicates ==
    pc = "upsert" =>
        /\ \A context \in UpsertContexts(ctree), path \in UpsertPaths, value \in UpsertValues :
              LET once == upsert_text(ctree, context, path, value).tree
              IN  upsert_text(once, context, path, value).tree = once
        /\ \A m1, m2 \in Created(ctree) :
              (m1 # m2 /\ ctree[m1].parent = ctree[m2].parent)
                  => ctree[m1].name # ctree[m2].name

\* C11 witness: calls on the context and on the context inside it have created
\* two PositionCharacteristics, one in each, and a PositionStatus with its Code
\* beside a created PositionCoefficient.
C11_Witness ==
    /\ pc = "upsert"
    /\ \E m1, m2 \in Created(ctree) :
          /\ ctree[m1].name = "PositionCharacteristics"
          /\ ctree[m2].name = "PositionCharacteristics"
          /\ ctree[m1].parent # ctree[m2].parent
    /\ \E m1, m2, m3 \in Created(ctree) :
          /\ ctree[m1].name = "PositionCoefficient" /\ ctree[m1].text = A2
          /\ ctree[m2].name = "PositionStatus" /\ ctree[m2].parent = ctree[m1].parent
          /\ ctree[m3].name = "Code" /\ ctree[m3].parent = m2 /\ ctree[m3].text = OP

\* C12: after a call of _upsert_text that succeeded, the element the path
\* leads to by child steps (its first step from the context as the XPath takes
\* it, every further step to a direct child) exists and holds the value.
C12_ChildStepsReachValue ==
    [][pc = "upsert" =>
          \A context \in UpsertContexts(ctree), path \in UpsertPaths, value \in UpsertValues :
              (/\ upsert_text(ctree, context, path, value).success
               /\ ctree' = upsert_text(ctree, context, path, value).tree)
              => /\ XPathPath(ctree', context, path) # <<>>
                 /\ ctree'[XPathPath(ctree', context, path)[1]].text = value]_vars

----------------------------------------------------------------------------
(* find_all_order_ids_in_xml *)

\* the reference blocks of a context: its ReferenceInformation children that
\* have an OrderId/IdValue
AnchorsOf(t, context) ==
    SelectSeq(Children(t, context),
              LAMBDA r : /\ t[r].name = "ReferenceInformation"
                         /\ XPathChildChild(t, r, "OrderId", "IdValue") # <<>>)

\* the assignment id a reference block gives, N/A without one
AssignmentOf(t, r) ==
    IF XPathChildChild(t, r, "AssignmentId", "IdValue") = <<>> THEN NA
    ELSE IF t[XPathChildChild(t, r, "AssignmentId", "IdValue")[1]].text = None THEN NA
    ELSE TrimOf(t[XPathChildChild(t, r, "AssignmentId", "IdValue")[1]].text)

\* C13: every contract that find_all_order_ids_in_xml returned has as context
\* the parent of a ReferenceInformation whose OrderId/IdValue has a non-empty
\* text, and its order_id and assignment_id are read from that
\* ReferenceInformation, a child of the context.
C13_ReadFromOwnReferenceBlock ==
    pc \in {"loop", "done"} =>
        \A i \in 1..Len(contracts) :
            \E r \in Range(AnchorsOf(input, contracts[i].context)) :
                LET id_text == input[XPathChildChild(input, r, "OrderId", "IdValue")[1]].text
                IN  /\ id_text # None
                    /\ contracts[i].order_id = extract_order_id_from_text(TrimOf(id_text))
                    /\ contracts[i].assignment_id = AssignmentOf(input, r)

\* RT, CR or CD followed by exactly six digits
IsOrderId(s) ==
    /\ Len(s) = 8
    /\ <<s[1], s[2]>> \in {<<"R", "T">>, <<"C", "R">>, <<"C", "D">>}
    /\ \A k \in 3..8 : s[k] \in DigitChars

\* the text holds an accepted order id somewhere
HasOrderId(text) ==
    \E i \in 1..Len(text) : i + 7 <= Len(text) /\ IsOrderId(SubSeq(text, i, i + 7))

\* is element n inside element c
RECURSIVE IsInside(_, _, _)
IsInside(t, n, c) ==
    IF n \notin 1..Len(t) \/ t[n].parent \notin 1..Len(t) THEN FALSE
    ELSE t[n].parent = c \/ IsInside(t, t[n].parent, c)

\* C14: a context whose OrderId/IdValue text holds no accepted order id is
\* discarded: no contract is returned for it, so it is not counted in total
\* and has no entry in details, and no element inside it is changed or
\* created; and every order_id returned and reported is RT, CR or CD followed
\* by exactly six digits.
C14_UnacceptedContextDiscarded ==
    pc \in {"loop", "done"} =>
        /\ \A c \in Range(ContextsOf(input)) :
              ~HasOrderId(IdTextOf(input, c)) =>
                  /\ \A i \in 1..Len(contracts) : contracts[i].context # c
                  /\ \A n \in 1..Len(ctree) :
                        IsInside(ctree, n, c) => (n <= Len(input) /\ ctree[n] = input[n])
        /\ stats.total <= Cardinality({c \in Range(ContextsOf(input)) :
                                          HasOrderId(IdTextOf(input, c))})
        /\ \A i \in 1..Len(contracts) : IsOrderId(contracts[i].order_id)
        /\ \A i \in 1..Len(stats.details) : IsOrderId(stats.details[i].OrderId)

----------------------------------------------------------------------------
(* enrich_xml: contracts without a record, and how a run ends *)

\* C15: the step that handles a contract whose order id is not in the table
\* reports matched = false with no status code, counts it in non_trouves and
\* not in enrichis, changes no element other than a PositionCoefficient (or
\* the PositionCharacteristics it creates for it) and only when it counts the
\* fallback, and does not end the run; and a run in which every contract was
\* such a contract does not end as a failure.
C15_UnmatchedLeftAsIs ==
    [][/\ (pc = "loop" /\ idx' = idx + 1
            /\ contracts[idx].order_id \notin DOMAIN commandes_data)
          => /\ stats'.details[Len(stats'.details)].matched = FALSE
             /\ stats'.details[Len(stats'.details)].PositionStatusCode = NA
             /\ stats'.non_trouves = stats.non_trouves + 1
             /\ stats'.enrichis = stats.enrichis
             /\ \A n \in 1..Len(ctree') :
                   (n > Len(ctree) \/ ctree'[n] # ctree[n]) =>
                       /\ stats'.fallback_used = stats.fallback_used + 1
                       /\ \/ ctree'[n].name = "PositionCoefficient"
                          \/ n > Len(ctree) /\ ctree'[n].name = "PositionCharacteristics"
             /\ pc' = "loop" /\ result' = result
       /\ (pc = "loop" /\ pc' = "done" /\ result' # Unexpected
            /\ stats.non_trouves = stats.total)
          => result'.success]_vars

\* the run reported no assignment for any contract
NothingAssigned ==
    \A i \in 1..Len(stats.details) :
        /\ stats.details[i].PositionCoefficient = NA
        /\ stats.details[i].PositionStatusCode = NA

\* C16: a run that has ended returned a summary whose total is the number of
\* contracts detected and whose details has an entry for each, also when
\* nothing was assigned; and when the table is not empty and nothing was
\* assigned, the result is neither a failure nor the plain success: it
\* carries the warning.
C16_SummaryWithWarning ==
    pc = "done" =>
        /\ result # NoResult
        /\ stats.total = Len(contracts)
        /\ Len(stats.details) = Len(contracts)
        /\ (DOMAIN commandes_data # {} /\ contracts # <<>> /\ NothingAssigned)
              => (result.success /\ result.message # "XML enrichi avec succes")

\* C17: a run on a document in which no contract was detected ends with a
\* result that is not a failure and reports zero contracts.
C17_NoContractIsNotAFailure ==
    (pc = "done" /\ contracts = <<>>) =>
        /\ stats.total = 0
        /\ stats.details = <<>>
        /\ result.success

----------------------------------------------------------------------------
(* enrich_xml: failures while a contract is enriched *)

\* a value of a record with which the enrichment of its contract fails: not a
\* string, or a text that cannot be assigned to an element
Malformed(v) == v = JsonNumber \/ \E i \in 1..Len(v) : v[i] \in ControlChars

\* the enrichment of contract i fails
Failing(i) ==
    /\ contracts[i].order_id \in DOMAIN commandes_data
    /\ \/ Malformed(commandes_data[contracts[i].order_id].classification_interimaire)
       \/ Malformed(commandes_data[contracts[i].order_id].statut)

\* what handling contract i alone, on the document as parsed, gives
Alone(i) ==
    IF contracts[i].order_id \in DOMAIN commandes_data
    THEN LET m == enrich_contract(input, contracts[i].context,
                                  commandes_data[contracts[i].order_id])
         IN  [tree |-> m.tree, coefficient |-> m.classification, code |-> m.statut_code]
    ELSE LET f == apply_classification_fallback(input, contracts[i].context)
         IN  [tree |-> f.tree,
              coefficient |-> IF f.found THEN f.classification ELSE NA, code |-> NA]

\* C18: when a run in which the enrichment of a contract fails has ended, it
\* was not aborted, and every contract whose enrichment does not fail was
\* handled: it has its entry in details with the
\* values, and its fields hold the texts, that handling it alone gives,
\* whatever failed for the other contracts.
C18_FailureIsolated ==
    (pc = "done" /\ \E k \in 1..Len(contracts) : Failing(k)) =>
        /\ result # Unexpected
        /\ \A i \in 1..Len(contracts) :
              ~Failing(i) =>
                  /\ i <= Len(stats.details)
                  /\ stats.details[i].OrderId = contracts[i].order_id
                  /\ stats.details[i].PositionCoefficient = Alone(i).coefficient
                  /\ stats.details[i].PositionStatusCode = Alone(i).code
                  /\ FirstText(ctree, contracts[i].context, xpath_coeff)
                        = FirstText(Alone(i).tree, contracts[i].context, xpath_coeff)
                  /\ FirstText(ctree, contracts[i].context, xpath_status)
                        = FirstText(Alone(i).tree, contracts[i].context, xpath_status)

\* the record of contract i resolves both a coefficient and a status code
BothResolved(i) ==
    /\ contracts[i].order_id \in DOMAIN commandes_data
    /\ TrimOf(commandes_data[contracts[i].order_id].classification_interimaire) # <<>>
    /\ commandes_data[contracts[i].order_id].statut # None

\* in the document out, contract i has both of them
AllApplied(out, i) ==
    /\ FirstText(out, contracts[i].context, xpath_coeff)
          = TrimOf(commandes_data[contracts[i].order_id].classification_interimaire)
    /\ FirstText(out, contracts[i].context, xpath_status)
          = CodeOf(commandes_data[contracts[i].order_id].statut)

\* in the document out, contract i is as it was read: no element inside its
\* context was changed or created
NoneApplied(out, i) ==
    \A n \in 1..Len(out) :
        IsInside(out, n, contracts[i].context) => (n <= Len(input) /\ out[n] = input[n])

----------------------------------------------------------------------------
(* enrich_xml: the encoding of the output *)

\* C20: the file a run has written is in the encoding that the prolog of the
\* file it read declares, and in UTF-8 when that prolog declares none.
C20_OutputEncoding ==
    (pc = "done" /\ result.success) =>
        outenc = (IF declared = NoEncoding THEN "UTF-8" ELSE declared)

\* C20 witness: a run on a file whose prolog declares no encoding has written
\* its output, in UTF-8.
C20_Witness ==
    /\ pc = "done" /\ result.success /\ outfile # NoFile
    /\ declared = NoEncoding
    /\ outenc = "UTF-8"

----------------------------------------------------------------------------
\* the default namespace in scope at n: the xmlns of the nearest element, from
\* n upwards, that has an xmlns attribute; no namespace when there is none
DeclaringAbove(t, n) ==
    {k \in 0..Len(t) : /\ Ancestor(t, n, k) \in 1..Len(t)
                       /\ t[Ancestor(t, n, k)].xmlns # Undeclared}

DefaultInScope(t, n) ==
    IF DeclaringAbove(t, n) = {} THEN NoNamespace
    ELSE LET k == CHOOSE j \in DeclaringAbove(t, n) :
                      \A i \in DeclaringAbove(t, n) : j <= i
         IN  t[Ancestor(t, n, k)].xmlns

----------------------------------------------------------------------------
\* the number of contracts the loop of enrich_xml has processed so far
Processed == IF pc = "done" THEN Len(contracts) ELSE idx - 1

\* C22: after every processed contract and at the end of enrich_xml the
\* summary agrees with the recap: details holds one row per located contract
\* processed, in the order located; total is the number of located contracts;
\* enrichis + non_trouves is the number of rows; enrichis is the number of
\* rows with matched = true; fallback_used does not exceed total.
C22_SummaryConsistentWithRecap ==
    (pc \in {"loop", "done"} /\ contracts # <<>>) =>
        LET rows == stats.details IN
        /\ Len(rows) = Processed
        /\ \A i \in 1..Len(rows) :
              /\ i <= Len(contracts)
              /\ rows[i].OrderId = contracts[i].order_id
              /\ rows[i].AssignmentId = contracts[i].assignment_id
        /\ stats.total = Len(contracts)
        /\ stats.enrichis + stats.non_trouves = Len(rows)
        /\ stats.enrichis = Cardinality({i \in 1..Len(rows) : rows[i].matched})
        /\ stats.fallback_used <= stats.total

----------------------------------------------------------------------------
\* the elements that hold an order id: named OrderId, in any of the spellings
\* extract_order_id looks for, whatever the prefix
OrderIdElements(t) ==
    {n \in 1..Len(t) : /\ t[n].parent # Detached
                       /\ t[n].name \in {"OrderId", "orderid", "order_id", "OrderID"}}

\* C23: extract_order_id returns the text of the document's OrderId element
\* also when the names carry a namespace prefix (ns:OrderId under
\* ns:PixidOrder): the result is that element's text, not None.
C23_PrefixedOrderIdExtracted ==
    (processor # NotRunning /\ processor.order_id # NotCalled) =>
        \A n \in OrderIdElements(processor.document) :
            (/\ OrderIdElements(processor.document) = {n}
             /\ processor.document[n].prefix # ""
             /\ processor.document[n].text # <<>>)
            => processor.order_id = processor.document[n].text

\* the same for names written without a prefix
ExtractedWithoutPrefix ==
    (processor # NotRunning /\ processor.order_id # NotCalled) =>
        \A n \in OrderIdElements(processor.document) :
            (/\ OrderIdElements(processor.document) = {n}
             /\ processor.document[n].prefix = ""
             /\ processor.document[n].text # <<>>)
            => processor.order_id = processor.document[n].text

----------------------------------------------------------------------------
\* the elements of t with the local name name, whatever their namespace
Named(t, name) == {n \in 1..Len(t) : t[n].parent # Detached /\ t[n].name = name}

\* the children of element n with the local name name
ChildrenNamed(t, n, name) == {m \in Named(t, name) : t[m].parent = n}

\* a supplied value that is neither missing, None, empty, nor 'nan', 'none',
\* 'null' in any case
Supplied(value) ==
    value \notin {Missing, None, Text_nan, Text_NaN, Text_None, Text_NULL}

MappedNames == {XML_FIELD_MAPPING[i][2] : i \in 1..Len(XML_FIELD_MAPPING)}

\* a call of XMLProcessor.enrich_xml that returned a document
Enriched == processor # NotRunning /\ processor' # processor /\ processor'.returned

\* what C24 says of one call that turned the document before into after
UpdatedInPlace(before, after, data) ==
    /\ Cardinality(Named(after, "PIXIDEnrichment")) = 1
    /\ Cardinality(Named(after, "EnrichmentMetadata")) = 1
    /\ \A name \in MappedNames : Cardinality(Named(after, name)) <= 1
    /\ \A section \in Named(before, "PIXIDEnrichment") :
          /\ \A i \in 1..Len(XML_FIELD_MAPPING) :
                Supplied(data[XML_FIELD_MAPPING[i][1]]) =>
                    /\ \E m \in ChildrenNamed(after, section, XML_FIELD_MAPPING[i][2]) :
                          after[m].text = data[XML_FIELD_MAPPING[i][1]]
                    /\ \A m \in ChildrenNamed(before, section, XML_FIELD_MAPPING[i][2]) :
                          after[m].text = data[XML_FIELD_MAPPING[i][1]]
          /\ \A m \in 1..Len(before) :
                before[m].parent = section =>
                    /\ after[m].name = before[m].name
                    /\ after[m].parent = section
                    /\ (before[m].name \notin MappedNames => after[m].text = before[m].text)

\* C24: enrich_xml on a document that already has a PIXIDEnrichment section
\* updates each supplied mapped field in place and preserves the other
\* children of the section; after any number of successive calls the document
\* has exactly one PIXIDEnrichment section, exactly one EnrichmentMetadata
\* block and at most one element per mapped field.
C24_ExistingSectionUpdatedInPlace ==
    [][Enriched => UpdatedInPlace(processor.document, processor'.document,
                                  processor'.enrichment_data)]_vars

\* the same for the documents that use no namespace
InPlaceWithoutNamespace ==
    [][(Enriched /\ \A n \in 1..Len(processor.document) :
                       processor.document[n].ns = NoNamespace)
        => UpdatedInPlace(processor.document, processor'.document,
                          processor'.enrichment_data)]_vars

----------------------------------------------------------------------------
\* the PIXIDEnrichment section the n-th call worked on: the one whose
\* EnrichmentMetadata carries the timestamp of that call
StampedSections(t, n) ==
    {section \in Named(t, "PIXIDEnrichment") :
        \E metadata \in ChildrenNamed(t, section, "EnrichmentMetadata") :
            \E stamp \in ChildrenNamed(t, metadata, "Timestamp") :
                t[stamp].text = Timestamp(n)}

\* the text of EnrichmentMetadata/FieldsEnriched of a section
FieldsEnrichedOf(t, section) ==
    {t[count].text : count \in {c \in Named(t, "FieldsEnriched") :
                                   /\ t[c].parent \in 1..Len(t)
                                   /\ t[t[c].parent].name = "EnrichmentMetadata"
                                   /\ t[t[c].parent].parent = section}}

SuppliedFields(data) ==
    {i \in 1..Len(XML_FIELD_MAPPING) : Supplied(data[XML_FIELD_MAPPING[i][1]])}

\* a field without a usable value creates no element and changes none, and
\* FieldsEnriched is the number of fields with a usable value
SkippedAndCounted(before, after, data, section) ==
    /\ FieldsEnrichedOf(after, section) = {IntText(Cardinality(SuppliedFields(data)))}
    /\ \A i \in 1..Len(XML_FIELD_MAPPING) :
          i \notin SuppliedFields(data) =>
              /\ ChildrenNamed(after, section, XML_FIELD_MAPPING[i][2])
                    = ChildrenNamed(before, section, XML_FIELD_MAPPING[i][2])
              /\ \A m \in ChildrenNamed(before, section, XML_FIELD_MAPPING[i][2]) :
                    after[m].text = before[m].text

----------------------------------------------------------------------------
\* the reference anchors with a valid order id: every ReferenceInformation
\* whose OrderId/IdValue holds an accepted order id
ValidAnchors(t) ==
    {r \in 1..Len(t) :
        /\ t[r].parent # Detached
        /\ t[r].name = "ReferenceInformation"
        /\ XPathChildChild(t, r, "OrderId", "IdValue") # <<>>
        /\ HasOrderId(t[XPathChildChild(t, r, "OrderId", "IdValue")[1]].text)}

\* the contracts that are the outcome of anchor r: their context is the parent
\* of r and their order id is the one r holds
OutcomesOf(t, r) ==
    {i \in 1..Len(contracts) :
        /\ contracts[i].context = t[r].parent
        /\ \E k \in 1..Len(t[XPathChildChild(t, r, "OrderId", "IdValue")[1]].text) :
              MatchAt(t[XPathChildChild(t, r, "OrderId", "IdValue")[1]].text,
                      SubSeq(contracts[i].order_id, 1, 2), k)
              /\ SubSeq(t[XPathChildChild(t, r, "OrderId", "IdValue")[1]].text, k, k + 7)
                    = contracts[i].order_id}

\* the anchors an unsupported-shape diagnostic names: enrich_xml returns a
\* success flag, a message and the summary, and prints the contracts found;
\* nothing it returns or prints names a reference block that was passed over
Diagnosed == {}

SharesParent(t, r) ==
    \E q \in 1..Len(t) : q # r /\ t[q].name = "ReferenceInformation"
                                /\ t[q].parent = t[r].parent

\* C26: no reference anchor with a valid order id is silently dropped: each
\* yields its own contract outcome or, when it shares its parent with another
\* anchor, is named by an unsupported-shape diagnostic; the outcomes and the
\* diagnosed anchors together are as many as the valid anchors.
C26_NoValidAnchorDropped ==
    pc \in {"loop", "done"} =>
        /\ \A r \in ValidAnchors(input) :
              \/ OutcomesOf(input, r) # {}
              \/ (SharesParent(input, r) /\ r \in Diagnosed)
        /\ Len(contracts) + Cardinality(Diagnosed) = Cardinality(ValidAnchors(input))

\* C27: after n finalize_run calls on one data file, each from its own
\* collector and with no other writer of the file, the stored history holds the
\* last min(n, 1000) finalized runs in the order they were finalized, the latest
\* last, and total_runs is the number of stored runs.
C27_HistoryHoldsLatestRuns ==
    (monitoring # NotRunning /\ monitoring.generated = <<>>) =>
        LET stored == load_history(monitoring.file)
            n == Len(monitoring.finalized)
            kept == IF n < RunsKept THEN n ELSE RunsKept
        IN  /\ Len(get_runs(monitoring.file)) = kept
            /\ \A i \in 1..kept :
                  get_runs(monitoring.file)[i] = monitoring.finalized[n - kept + i]
            /\ stored.total_runs = kept

\* The same, for runs json can serialise: holds in every run.
LatestRunsWhenSerialisable ==
    (/\ monitoring # NotRunning
     /\ \A i \in 1..Len(monitoring.finalized) : Serialisable(monitoring.finalized[i])) =>
        C27_HistoryHoldsLatestRuns

\* C28: whatever the order of finalize_run and generate_monitoring_stats calls
\* on monitoring_data.json, every call has stored its record and each writer
\* still reads the records it stored before, up to 1000 runs and 100 statistics.
\* Stated for runs json can serialise.
C28_WritersKeepEachOthersRecords ==
    (/\ monitoring # NotRunning
     /\ \A i \in 1..Len(monitoring.finalized) : Serialisable(monitoring.finalized[i])) =>
        /\ get_runs(monitoring.file) = KeepLast(monitoring.finalized, RunsKept)
        /\ get_history(monitoring.file) = KeepLast(monitoring.generated, HistoryKept)

HasRow(id) == \E j \in 1..Len(synchronizer.sheet) : synchronizer.sheet[j].file_id = id

\* The files a synchronizer constructed now would list
Eligible ==
    IdsOf(list_files(synchronizer.drive,
                     synchronizer.state_file \cup get_processed_file_ids(synchronizer.sheet)))

\* C29: a Drive file is in the processed-files set (the cache list_files
\* excludes, the set _save_state stores) only if its row was appended to the
\* sheet; a listed file whose download failed, whose extraction was rated
\* 'failed' or whose append failed is still listed by a later sync.
C29_ProcessedOnlyIfAppended ==
    synchronizer # NotRunning =>
        /\ \A id \in IdsOf(synchronizer.drive) :
              id \in synchronizer.cache \cup synchronizer.state_file => HasRow(id)
        /\ \A i \in 1..Len(synchronizer.last.files) :
              LET file == synchronizer.last.files[i]
              IN  (\/ file.id \in synchronizer.last.unreachable
                   \/ evaluate_extraction(file) = "failed"
                   \/ synchronizer.last.raised) => file.id \in Eligible

\* Only the file whose download failed stays out of the set: holds in every run.
FailedDownloadStaysEligible ==
    synchronizer # NotRunning =>
        synchronizer.last.unreachable \subseteq Eligible

UniqueOrders(sheet) ==
    \A i, j \in 1..Len(sheet) :
        sheet[i].numero_commande = sheet[j].numero_commande => i = j

AppendCalled == synchronizer # NotRunning /\ synchronizer.last.processed_data # <<>>

\* C30: append_rows(data, check_duplicates=True) on a sheet where no two rows
\* share a numero_commande leaves such a sheet, for every batch, a batch that
\* holds the same numero_commande twice included; and it returns the number of
\* rows it appended.
C30_AppendKeepsOrdersUnique ==
    AppendCalled =>
        /\ UniqueOrders(synchronizer.last.before) => UniqueOrders(synchronizer.sheet)
        /\ synchronizer.last.returned =
              Len(synchronizer.sheet) - Len(synchronizer.last.before)

\* The count alone: holds in every run.
ReturnedCountIsAppended ==
    AppendCalled =>
        synchronizer.last.returned = Len(synchronizer.sheet) - Len(synchronizer.last.before)

\* Uniqueness for the batches without a repeated order number: fails on an
\* empty sheet only through a repeated number, so it holds in every run.
UniqueWhenBatchHasNoRepeat ==
    (AppendCalled /\ UniqueOrders(synchronizer.last.processed_data)
                  /\ UniqueOrders(synchronizer.last.before)) =>
        UniqueOrders(synchronizer.sheet)

====
